---- MODULE Spec2Model ----
(***************************************************************************)
(* A model of the DJ library converter: the neutral library model          *)
(* (Collection, Track, Playlist, CuePoint, Loop), the Traktor NML          *)
(* importer, the Rekordbox XML exporter, the ConversionService, the        *)
(* ConversionOrchestrator with its use cases and registries, and the       *)
(* PlaylistRepository.                                                     *)
(*                                                                         *)
(* Conventions.                                                            *)
(*  - A Python str that the code takes apart (paths, playlist keys) is a   *)
(*    sequence of one-character strings; a str that is only stored and     *)
(*    compared (names, titles) is a TLA+ string.                           *)
(*  - uuid4() is a fresh number drawn from the counter nextId.             *)
(*  - CuePoint and Playlist objects are shared by reference in the code,   *)
(*    so they live in heaps keyed by their id (cueHeap, plHeap); a Track   *)
(*    holds the ids of its cue points, a Playlist the ids of its children, *)
(*    a Collection the ids of its playlists.  A dict is the sequence of    *)
(*    its values in insertion order.                                       *)
(*  - A float position is held as the integer m with position =            *)
(*    double(m) / 1000.0, the only floats the importer produces.           *)
(***************************************************************************)
EXTENDS Integers, Sequences, FiniteSets, TLC

VARIABLES doc,        \* the NML document handed to the importer
          collection, \* the Collection of the run (the merge target); the
                      \* PlaylistRepository in SpecRepository
          source,     \* the second Collection, merge_collections' source
          cueHeap,    \* CuePoint objects by id
          plHeap,     \* Playlist objects by id
          ghost,      \* history: [nodeOf: playlist id -> path of its NODE,
                      \*           entryOf: track id -> index of its ENTRY,
                      \*           id_mapping: the last merge's id table,
                      \*           call, made: the last call made on an
                      \*           entity directly and the number of calls]
          xml,        \* <<the Rekordbox document of the last export>>, or <<>>
          nextId,     \* the next fresh uuid
          pc,         \* the last operation performed
          pre,        \* history: <<the state before the last operation>>
          dest,       \* what the export's destination path holds
          orch        \* the run of ConversionOrchestrator.convert: its
                      \* arguments, the notifications delivered to the
                      \* progress callback, the stages called, its result

vars == <<doc, collection, source, cueHeap, plHeap, ghost, xml, nextId, pc, pre,
          dest, orch>>

\* None where an id is expected (parent_id: Optional[UUID] = None); ids are >= 1.
\* Any other optional value is a sequence of length 0 (None) or 1.
None == 0

\* ------------------------------------------------------------------ bounds

MaxEntries == 2
MaxKeys == 2
MaxNodes == 3
MaxTracks == 2
MaxCues == 2
MaxPlaylists == 2
MaxRefs == 2
MaxMergeTracks == 3
MaxLoops == 2
MaxStart == 1030
MaxFrames == 13
MaxIds == 3
MaxObjects == 3
MaxCalls == 4

\* ----------------------------------------------------------- Python strings

startswith(s, p) ==
    /\ Len(p) <= Len(s)
    /\ SubSeq(s, 1, Len(p)) = p

endswith(s, p) ==
    /\ Len(p) <= Len(s)
    /\ SubSeq(s, Len(s) - Len(p) + 1, Len(s)) = p

\* The first index at or after i where sep occurs in s, 0 when there is none.
RECURSIVE find(_, _, _)
find(s, sep, i) ==
    IF i + Len(sep) - 1 > Len(s) THEN 0
    ELSE IF SubSeq(s, i, i + Len(sep) - 1) = sep THEN i
    ELSE find(s, sep, i + 1)

\* str.split(sep): the pieces between the occurrences of sep, left to right.
RECURSIVE split(_, _)
split(s, sep) ==
    LET i == find(s, sep, 1)
    IN  IF i = 0 THEN <<s>>
        ELSE <<SubSeq(s, 1, i - 1)>> \o split(SubSeq(s, i + Len(sep), Len(s)), sep)

\* sep.join(parts)
RECURSIVE join(_, _)
join(sep, parts) ==
    IF parts = <<>> THEN <<>>
    ELSE IF Len(parts) = 1 THEN parts[1]
    ELSE parts[1] \o sep \o join(sep, Tail(parts))

\* posixpath.join(a, b): an absolute b replaces a; otherwise b is appended,
\* after a "/" unless a is empty or ends with one.
path_join2(a, b) ==
    IF startswith(b, <<"/">>) THEN b
    ELSE IF a = <<>> \/ endswith(a, <<"/">>) THEN a \o b
    ELSE a \o <<"/">> \o b

os_path_join(a, b, c) == path_join2(path_join2(a, b), c)

TraktorSep == <<"/", ":">>

\* --------------------------------------------------------- Python floats

\* 2^e
RECURSIVE Pow2(_)
Pow2(e) == IF e = 0 THEN 1 ELSE 2 * Pow2(e - 1)

\* 2^e mod n, without leaving the small integers
RECURSIVE Pow2Mod(_, _)
Pow2Mod(e, n) == IF e = 0 THEN 1 % n ELSE (2 * Pow2Mod(e - 1, n)) % n

\* floor(log2(m)) for m >= 1
RECURSIVE FloorLog2(_)
FloorLog2(m) == IF m < 2 THEN 0 ELSE 1 + FloorLog2(m \div 2)

\* floor(log2(m / 1000)) for m >= 1: the binary exponent of the double m/1000.0
RECURSIVE FloorLog2Div1000(_)
FloorLog2Div1000(m) ==
    IF m >= 1000 THEN FloorLog2(m \div 1000)
    ELSE FloorLog2Div1000(2 * m) - 1

\* int(position * 1000) where position is the double m / 1000.0 (m >= 0).
\* m/1000.0 is the quotient rounded to 53 bits (round to nearest, ties to
\* even); with e = 52 - floor(log2(m/1000)) its error is r / 2^e thousandths,
\* r = m * 2^e mod 1000.  The product with 1000 is m - r/2^e when the quotient
\* was rounded down, and then rounds to the double below m (so that int()
\* yields m - 1) exactly when r/2^e exceeds half the gap between m and the
\* double below it; it rounds to m at least otherwise.
seconds_to_ms(m) ==
    IF m = 0 THEN 0
    ELSE LET a     == FloorLog2Div1000(m)
             b     == FloorLog2(m)
             R     == (m * Pow2Mod(52 - a, 2000)) % 2000
             r     == R % 1000
             down  == r < 500 \/ (r = 500 /\ R \div 1000 = 0)
             gap   == IF Pow2(b) = m THEN Pow2(b - a - 2) ELSE Pow2(b - a - 1)
         IN  IF r # 0 /\ down /\ r > gap THEN m - 1 ELSE m

\* ------------------------------------------------------------ domain model

CueTypes == {"HOT_CUE", "MEMORY_CUE", "GRID_MARKER", "LOOP_IN", "LOOP_OUT",
             "LOAD_MARKER", "FADE_IN", "FADE_OUT"}

DefaultColor == "#FFFFFF"

\* CuePoint(name, position, type, color, index); its id is its heap key.
CuePoint(name, position, type, color, index) ==
    [name |-> name, position |-> position, type |-> type, color |-> color,
     index |-> index]

\* A mutant of to_memory_cue: the cue also leaves its pad.
to_memory_cue_clears_index(cue) == [cue EXCEPT !.type = "MEMORY_CUE", !.index = -1]

\* CuePoint.to_memory_cue: sets the type of the object itself.
to_memory_cue(cue) == [cue EXCEPT !.type = "MEMORY_CUE"]

\* Loop(name, start_position, end_position, type, color, index)
Loop(id, name, start_position, end_position, type, color, index) ==
    [id |-> id, name |-> name, start_position |-> start_position,
     end_position |-> end_position, type |-> type, color |-> color, index |-> index]

\* Track(...): the fields the converter reads or writes; album, genre, key and
\* comment are strings passed through like title and artist.
Track(id, title, artist, file_path, duration, rating, bpm, cue_points, loops, custom_tags) ==
    [id |-> id, title |-> title, artist |-> artist, file_path |-> file_path,
     duration |-> duration, rating |-> rating, bpm |-> bpm,
     cue_points |-> cue_points, loops |-> loops, custom_tags |-> custom_tags]

NoTags == [k \in {} |-> <<>>]

\* Track.add_custom_tag
add_custom_tag(track, key, value) ==
    [track EXCEPT !.custom_tags =
        [k \in DOMAIN track.custom_tags \cup {key} |->
            IF k = key THEN value ELSE track.custom_tags[k]]]

\* Playlist(name, description, track_ids, parent_id), children empty.
Playlist(name, description, track_ids, parent_id) ==
    [name |-> name, description |-> description, track_ids |-> track_ids,
     parent_id |-> parent_id, children |-> <<>>]

InSeq(x, s) == \E i \in 1..Len(s) : s[i] = x


\* A mutant of playlist_add_track: the id is appended without the test.
playlist_add_track_always(pl, track_id) ==
    [pl EXCEPT !.track_ids = Append(@, track_id)]

\* Playlist.add_track: re-adding an id is a no-op.
playlist_add_track(pl, track_id) ==
    IF InSeq(track_id, pl.track_ids) THEN pl
    ELSE [pl EXCEPT !.track_ids = Append(@, track_id)]

\* list.remove(x): the list without its first x.
list_remove(s, x) ==
    LET i == CHOOSE k \in 1..Len(s) : s[k] = x /\ \A j \in 1..(k - 1) : s[j] # x
    IN  SubSeq(s, 1, i - 1) \o SubSeq(s, i + 1, Len(s))

\* Playlist.remove_track
playlist_remove_track(pl, track_id) ==
    IF InSeq(track_id, pl.track_ids)
    THEN [pl EXCEPT !.track_ids = list_remove(@, track_id)]
    ELSE pl

\* Playlist.add_child, on the objects pls: self and playlist are their ids.
playlist_add_child(pls, self, playlist) ==
    [pls EXCEPT ![playlist].parent_id = self, ![self].children = Append(@, playlist)]

\* Playlist.remove_child: the first child with that id is popped.
playlist_remove_child(pls, self, playlist_id) ==
    IF InSeq(playlist_id, pls[self].children)
    THEN [pls EXCEPT ![self].children = list_remove(@, playlist_id)]
    ELSE pls

\* Collection(name): empty tracks, playlists and root_playlists.
Collection(name) ==
    [name |-> name, tracks |-> <<>>, playlists |-> <<>>, root_playlists |-> <<>>]

\* Collection.add_track: self.tracks[track.id] = track.
add_track(c, track) ==
    IF \E i \in 1..Len(c.tracks) : c.tracks[i].id = track.id
    THEN [c EXCEPT !.tracks =
            [i \in 1..Len(c.tracks) |->
                IF c.tracks[i].id = track.id THEN track ELSE c.tracks[i]]]
    ELSE [c EXCEPT !.tracks = Append(@, track)]

\* Collection.get_track: <<the track with that id>>, or <<>> for None.
get_track(c, track_id) ==
    IF \E i \in 1..Len(c.tracks) : c.tracks[i].id = track_id
    THEN <<c.tracks[CHOOSE i \in 1..Len(c.tracks) : c.tracks[i].id = track_id]>>
    ELSE <<>>

\* A mutant of add_playlist: every playlist is recorded as a root.
add_playlist_always_root(c, pls, id) ==
    [c EXCEPT
        !.playlists = IF InSeq(id, @) THEN @ ELSE Append(@, id),
        !.root_playlists = Append(@, id)]

\* Collection.add_playlist: self.playlists[id] = playlist, and the id is
\* appended to root_playlists when the playlist has no parent.
add_playlist(c, pls, id) ==
    [c EXCEPT
        !.playlists = IF InSeq(id, @) THEN @ ELSE Append(@, id),
        !.root_playlists = IF pls[id].parent_id = None THEN Append(@, id) ELSE @]

\* Collection.get_playlist: <<id>> when the id is a key of playlists (the
\* object is plHeap[id]), or <<>> for None.
get_playlist(c, id) == IF InSeq(id, c.playlists) THEN <<id>> ELSE <<>>

\* A heap with one more object.
Store(heap, id, obj) ==
    [k \in DOMAIN heap \cup {id} |-> IF k = id THEN obj ELSE heap[k]]

NoHeap == [k \in {} |-> <<>>]

\* --------------------------------------------------------- Traktor importer
\* The NML document, as ElementTree sees it:
\*   doc    [root, COLLECTION: <<>> or <<ENTRY elements>>,
\*           PLAYLISTS: <<>> or <<top-level NODE elements>>]
\*   ENTRY  [LOCATION: <<>> or <<[VOLUME, DIR, FILE]>>, TITLE, ARTIST,
\*           INFO: <<>> or <<[PLAYTIME, RANKING]>>, TEMPO: <<>> or <<[BPM]>>,
\*           CUE_V2: <<[TYPE, START, HOTCUE, NAME]...>>, LOOP: <<[START, END, NAME]...>>]
\*   NODE   [TYPE, NAME, SUBNODES: <<>> or <<NODE elements>>, NODE: NODE elements,
\*           PLAYLIST: <<>> or <<PRIMARYKEY KEY of each ENTRY>>]
\* A numeric attribute is <<"absent">>, <<"num", n>> or <<"junk">> (text that
\* float() and int() reject).

Absent == <<"absent">>
Junk == <<"junk">>
Num(n) == <<"num", n>>

\* float(elem.get(attr, default)) / int(elem.get(attr, default)):
\* [ok |-> FALSE] stands for the ValueError.
parse_number(attr, default) ==
    IF attr = Absent THEN [ok |-> TRUE, val |-> default]
    ELSE IF attr[1] = "num" THEN [ok |-> TRUE, val |-> attr[2]]
    ELSE [ok |-> FALSE, val |-> default]

\* A mutant of cue_type_map: the default is GRID_MARKER.
cue_type_map_default_grid(cue_type_str) ==
    IF cue_type_str \in {"cue", "fade-in", "fade-out", "load", "loop"}
    THEN "HOT_CUE" ELSE "GRID_MARKER"

\* The importer's cue_type_map, with its default.
cue_type_map(cue_type_str) ==
    IF cue_type_str = "grid" THEN "GRID_MARKER" ELSE "HOT_CUE"

\* TraktorImporter._parse_cue_point; position is kept in thousandths
\* (START / 1000.0 seconds).
parse_cue_point(cue_element) ==
    LET cue_type_str   == IF cue_element.TYPE = <<>> THEN "cue" ELSE cue_element.TYPE[1]
        start          == parse_number(cue_element.START, 0)
        cue_type       == cue_type_map(cue_type_str)
        hot_cue_number == IF cue_type = "HOT_CUE"
                          THEN parse_number(cue_element.HOTCUE, -1)
                          ELSE [ok |-> TRUE, val |-> -1]
    IN  [ok  |-> start.ok /\ hot_cue_number.ok,
         cue |-> CuePoint(cue_element.NAME, start.val, cue_type, DefaultColor,
                          hot_cue_number.val)]

\* TraktorImporter._parse_loop
parse_loop(loop_element, id) ==
    LET start == parse_number(loop_element.START, 0)
        end   == parse_number(loop_element.END, 0)
    IN  [ok   |-> start.ok /\ end.ok,
         loop |-> Loop(id, loop_element.NAME, start.val, end.val, "REGULAR",
                       DefaultColor, -1)]

\* for cue in cue_points: track.add_cue_point(self._parse_cue_point(cue))
RECURSIVE parse_cue_points(_, _)
parse_cue_points(elems, acc) ==
    IF elems = <<>> \/ ~acc.ok THEN acc
    ELSE LET p == parse_cue_point(Head(elems))
         IN  parse_cue_points(Tail(elems),
                [ok   |-> p.ok,
                 ids  |-> Append(acc.ids, acc.next),
                 cues |-> Store(acc.cues, acc.next, p.cue),
                 next |-> acc.next + 1])

\* for loop in loops: track.add_loop(self._parse_loop(loop))
RECURSIVE parse_loops(_, _)
parse_loops(elems, acc) ==
    IF elems = <<>> \/ ~acc.ok THEN acc
    ELSE LET p == parse_loop(Head(elems), acc.next)
         IN  parse_loops(Tail(elems),
                [ok    |-> p.ok,
                 loops |-> Append(acc.loops, p.loop),
                 next  |-> acc.next + 1])

\* The OS-native path of a LOCATION: a leading "/:" of DIR dropped, the rest
\* split on "/:" and joined with "/".
location_dir_parts(location) ==
    split(IF startswith(location.DIR, TraktorSep)
          THEN SubSeq(location.DIR, 3, Len(location.DIR))
          ELSE location.DIR,
          TraktorSep)

location_file_path(location) ==
    os_path_join(location.VOLUME, join(<<"/">>, location_dir_parts(location)),
                 location.FILE)

\* The path in Traktor's own format, stored for matching playlist entries.
location_traktor_path(location) ==
    location.VOLUME \o TraktorSep
        \o join(TraktorSep, Append(location_dir_parts(location), location.FILE))

\* The room of a call of import_library is the number of nested calls the
\* interpreter still allows when it is made: the recursion limit less the
\* depth of the calling frame.  What the calls below import_library need of
\* it, on CPython 3.11 in a process that has imported no library yet (once
\* xml.etree has cached the paths of an import, BaseFrames is one less):
\* with less than ExceptFrames, the RecursionError leaves import_library;
\* with less than BaseFrames, the file is not read or no section is found
\* (ET.parse in can_import, root.find in _import_tracks);
\* TrackFrames are needed to make the CuePoint or the Loop of an entry
\* (_parse_track > _parse_cue_point > CuePoint > __post_init__ > uuid4 > UUID);
\* NodeFrames and one for each _process_playlist_node call that is active
\* are needed to make the Playlist of a FOLDER or PLAYLIST node.
ExceptFrames == 3
BaseFrames == 9
TrackFrames == 12
NodeFrames == 10

\* TraktorImporter._parse_track on the state st = [c, cues, pls, next, nodeOf,
\* entryOf]: [ok, track, cues, next]; ok = FALSE when it returns None (no
\* LOCATION, or an exception: the RecursionError of a cue point or a loop
\* made with less than TrackFrames is one, caught as the others).
parse_track(entry, st, frames) ==
    IF entry.LOCATION = <<>>
    THEN [ok |-> FALSE, track |-> <<>>, cues |-> st.cues, next |-> st.next]
    ELSE
    LET location == entry.LOCATION[1]
        duration == IF entry.INFO = <<>> THEN [ok |-> TRUE, val |-> 0]
                    ELSE parse_number(entry.INFO[1].PLAYTIME, 0)
        rating   == IF entry.INFO = <<>> \/ ~duration.ok THEN [ok |-> duration.ok, val |-> 0]
                    ELSE parse_number(entry.INFO[1].RANKING, 0)
        bpm      == IF entry.TEMPO = <<>> \/ ~rating.ok THEN [ok |-> rating.ok, val |-> 0]
                    ELSE parse_number(entry.TEMPO[1].BPM, 0)
        id       == st.next
        cs       == parse_cue_points(entry.CUE_V2,
                        [ok |-> bpm.ok, ids |-> <<>>, cues |-> st.cues, next |-> id + 1])
        ls       == parse_loops(entry.LOOP,
                        [ok |-> cs.ok, loops |-> <<>>, next |-> cs.next])
        track    == add_custom_tag(
                        Track(id, entry.TITLE, entry.ARTIST, location_file_path(location),
                              duration.val, rating.val, bpm.val, cs.ids, ls.loops, NoTags),
                        "traktor_path", location_traktor_path(location))
        room     == (entry.CUE_V2 = <<>> /\ entry.LOOP = <<>>) \/ frames >= TrackFrames
    IN  IF ls.ok /\ room
        THEN [ok |-> TRUE, track |-> <<track>>, cues |-> cs.cues, next |-> ls.next]
        ELSE [ok |-> FALSE, track |-> <<>>, cues |-> st.cues, next |-> st.next]

\* TraktorImporter._import_tracks: every ENTRY that parses is added.
RECURSIVE import_entries(_, _, _, _)
import_entries(entries, i, st, frames) ==
    IF i > Len(entries) THEN st
    ELSE LET p == parse_track(entries[i], st, frames)
         IN  import_entries(entries, i + 1,
                IF p.ok
                THEN [st EXCEPT !.c = add_track(@, p.track[1]),
                                !.cues = p.cues,
                                !.next = p.next,
                                !.entryOf = Store(@, p.track[1].id, i)]
                ELSE st,
                frames)

import_tracks(d, st, frames) ==
    IF d.COLLECTION = <<>> THEN st
    ELSE import_entries(d.COLLECTION[1], 1, st, frames)

\* The first track, in the insertion order of collection.tracks, among those
\* at the indexes hits: <<its id>>, or <<>> when hits is empty.
\* (for t in collection.tracks.values(): if <test>: track = t; break)
FirstTrack(c, hits) ==
    IF hits = {} THEN <<>>
    ELSE <<c.tracks[CHOOSE i \in hits : \A j \in hits : i <= j].id>>

\* Method 1: the stored Traktor path equals the key.
match_traktor_path(c, track_key) ==
    FirstTrack(c, {i \in 1..Len(c.tracks) :
                    /\ "traktor_path" \in DOMAIN c.tracks[i].custom_tags
                    /\ c.tracks[i].custom_tags["traktor_path"] = track_key})

\* A mutant of match_file_name: when no file path ends with the filename the
\* first track of the collection is taken.
match_file_name_or_first(c, file_name) ==
    LET found == FirstTrack(c, {i \in 1..Len(c.tracks) :
                                    endswith(c.tracks[i].file_path, file_name)})
    IN  IF found = <<>> THEN FirstTrack(c, 1..Len(c.tracks)) ELSE found

\* Method 2: the file path ends with the key's filename.
match_file_name(c, file_name) ==
    FirstTrack(c, {i \in 1..Len(c.tracks) : endswith(c.tracks[i].file_path, file_name)})

\* A mutant of resolve_track: the filename match is tried first.
resolve_track_file_name_first(c, track_key) ==
    IF track_key = <<>> THEN <<>>
    ELSE LET parts == split(track_key, TraktorSep)
         IN  IF Len(parts) < 2 THEN <<>>
             ELSE LET file_name == parts[Len(parts)]
                      by_name   == match_file_name(c, file_name)
                  IN  IF by_name # <<>> THEN by_name
                      ELSE match_traktor_path(c, track_key)

\* The track a playlist ENTRY's KEY resolves to: <<track id>>, or <<>> when the
\* entry is skipped (empty key, no "/:" in it) or nothing matches.
resolve_track(c, track_key) ==
    IF track_key = <<>> THEN <<>>
    ELSE LET parts == split(track_key, TraktorSep)
         IN  IF Len(parts) < 2 THEN <<>>
             ELSE LET file_name == parts[Len(parts)]
                      exact     == match_traktor_path(c, track_key)
                  IN  IF exact # <<>> THEN exact
                      ELSE match_file_name(c, file_name)

\* for entry in playlist_elem.findall('./ENTRY'): resolve its PRIMARYKEY and
\* add the track found to the playlist.
RECURSIVE add_playlist_entries(_, _, _)
add_playlist_entries(entries, playlist_id, st) ==
    IF entries = <<>> THEN st
    ELSE LET location == Head(entries)
             track    == IF location = <<>> THEN <<>>
                         ELSE resolve_track(st.c, location[1])
         IN  add_playlist_entries(Tail(entries), playlist_id,
                IF track # <<>> /\ get_playlist(st.c, playlist_id) # <<>>
                THEN [st EXCEPT !.pls[playlist_id] = playlist_add_track(@, track[1])]
                ELSE st)

\* playlist = Playlist(name=node_name, parent_id=parent_id);
\* playlist_id = collection.add_playlist(playlist)
new_playlist(node, path, parent_id, st) ==
    LET pls == Store(st.pls, st.next, Playlist(node.NAME, "", <<>>, parent_id))
    IN  [st EXCEPT !.pls = pls,
                   !.c = add_playlist(@, pls, st.next),
                   !.next = @ + 1,
                   !.nodeOf = Store(@, st.next, path)]

\* The child nodes a FOLDER is walked into: those of its SUBNODES element when
\* it has one, its direct NODE children otherwise.
folder_children(node) ==
    IF node.SUBNODES # <<>> THEN node.SUBNODES[1] ELSE node.NODE

\* TraktorImporter._process_playlist_node, and the loop over a list of nodes.
\* path is the place of the node in the document (history only).
RECURSIVE process_playlist_node(_, _, _, _)
RECURSIVE process_nodes(_, _, _, _, _)
process_playlist_node(node, path, parent_id, st) ==
    IF node.TYPE = "FOLDER"
    THEN LET made == new_playlist(node, path, parent_id, st)
         IN  process_nodes(folder_children(node), 1, path, st.next, made)
    ELSE IF node.TYPE = "PLAYLIST"
    THEN LET made == new_playlist(node, path, parent_id, st)
         IN  IF node.PLAYLIST = <<>> THEN made
             ELSE add_playlist_entries(node.PLAYLIST[1], st.next, made)
    ELSE st

process_nodes(nodes, i, path, parent_id, st) ==
    IF i > Len(nodes) THEN st
    ELSE process_nodes(nodes, i + 1, path, parent_id,
            process_playlist_node(nodes[i], Append(path, i), parent_id, st))

\* TraktorImporter._import_playlists
import_playlists(d, st) ==
    IF d.PLAYLISTS = <<>> THEN st
    ELSE process_nodes(d.PLAYLISTS[1], 1, <<>>, None, st)

\* The number of _process_playlist_node calls that are active when the
\* deepest Playlist of a list of nodes is made: the call of a FOLDER or
\* PLAYLIST node makes one, and a FOLDER's call stays active while its
\* children are walked; the call of a node of another type makes none.
RECURSIVE call_depth(_)
call_depth(nodes) ==
    IF nodes = <<>> THEN 0
    ELSE LET node == Head(nodes)
             here == IF node.TYPE = "FOLDER"
                     THEN 1 + call_depth(folder_children(node))
                     ELSE IF node.TYPE = "PLAYLIST" THEN 1 ELSE 0
             rest == call_depth(Tail(nodes))
         IN  IF here >= rest THEN here ELSE rest

\* _process_playlist_node has no try/except of its own: the RecursionError of
\* a Playlist made in a call nested deeper than the room of the import
\* allows leaves _import_playlists.
playlists_raise(d, frames) ==
    /\ d.PLAYLISTS # <<>>
    /\ call_depth(d.PLAYLISTS[1]) > 0
    /\ NodeFrames + call_depth(d.PLAYLISTS[1]) > frames

\* A mutant of can_import: the root tag is not looked at.
can_import_any_root(d) == d.file = "ok"

\* TraktorImporter.can_import: the file name ends with .nml, ET.parse reads
\* the file, and the root tag is NML.
can_import(d) == d.file = "ok" /\ d.root = "NML"

\* TraktorImporter.import_library, called with room for frames nested calls:
\* [ok, raised, st]; ok = FALSE when it returns None, for a document that
\* can_import rejects and for an exception that reaches its except clause;
\* raised = TRUE when the RecursionError leaves it.
import_library(d, st, frames) ==
    IF frames < ExceptFrames THEN [ok |-> FALSE, raised |-> TRUE, st |-> st]
    ELSE IF frames < BaseFrames \/ ~can_import(d)
    THEN [ok |-> FALSE, raised |-> FALSE, st |-> st]
    ELSE IF playlists_raise(d, frames)
    THEN [ok |-> FALSE, raised |-> FALSE, st |-> st]
    ELSE [ok |-> TRUE, raised |-> FALSE,
          st |-> import_playlists(d,
                    import_tracks(d, [st EXCEPT !.c = Collection("Traktor Collection")],
                                  frames))]

\* ------------------------------------------------------- ConversionService

\* A mutant of convert_cue: hot cues and memory cues change places.
convert_cue_swaps(cue) ==
    IF cue.type = "HOT_CUE" THEN to_memory_cue(cue)
    ELSE IF cue.type = "MEMORY_CUE" THEN [cue EXCEPT !.type = "HOT_CUE"]
    ELSE cue

\* converted_cues.append(cue.to_memory_cue() if cue.type == CueType.HOT_CUE
\*                       else cue): the cue object as it is appended.
convert_cue(cue) == IF cue.type = "HOT_CUE" THEN to_memory_cue(cue) ELSE cue

\* The inner loop of convert_hot_cues_to_memory_cues over one track's cue
\* points: a HOT_CUE object is changed in place by to_memory_cue, the list
\* keeps the same objects in the same order.
RECURSIVE convert_cue_points(_, _)
convert_cue_points(cue_ids, cues) ==
    IF cue_ids = <<>> THEN cues
    ELSE convert_cue_points(Tail(cue_ids),
            [cues EXCEPT ![Head(cue_ids)] = convert_cue(@)])

\* ConversionService.convert_hot_cues_to_memory_cues: the cue heap afterwards
\* (every track keeps its list of cue objects).
RECURSIVE convert_tracks(_, _)
convert_tracks(tracks, cues) ==
    IF tracks = <<>> THEN cues
    ELSE convert_tracks(Tail(tracks), convert_cue_points(Head(tracks).cue_points, cues))

convert_hot_cues_to_memory_cues(c, cues) == convert_tracks(c.tracks, cues)

\* A mutant of existing_track: no track of target is taken for the track.
existing_track_never(target, track) == <<>>

\* A mutant of existing_track: tracks are taken for the same by their title.
existing_track_by_title(target, track) ==
    FirstTrack(target, {i \in 1..Len(target.tracks) :
                            target.tracks[i].title = track.title})

\* existing_track = next((t for t in target.tracks.values()
\*                        if t.file_path == track.file_path), None)
existing_track(target, track) ==
    FirstTrack(target, {i \in 1..Len(target.tracks) :
                            target.tracks[i].file_path = track.file_path})

\* The first loop of merge_collections: m = [target, id_mapping, next], where
\* id_mapping is a function from source track ids to target track ids.
RECURSIVE merge_tracks(_, _)
merge_tracks(tracks, m) ==
    IF tracks = <<>> THEN m
    ELSE LET track    == Head(tracks)
             existing == existing_track(m.target, track)
         IN  merge_tracks(Tail(tracks),
                IF existing # <<>>
                THEN [m EXCEPT !.id_mapping = Store(@, track.id, existing[1])]
                ELSE [m EXCEPT
                        !.target = add_track(@,
                            Track(m.next, track.title, track.artist, track.file_path,
                                  track.duration, track.rating, track.bpm,
                                  track.cue_points, track.loops, track.custom_tags)),
                        !.id_mapping = Store(@, track.id, m.next),
                        !.next = @ + 1])

\* A mutant of map_track_ids: the ids are filtered and not translated.
map_track_ids_untranslated(track_ids, id_mapping) ==
    SelectSeq(track_ids, LAMBDA tid : tid \in DOMAIN id_mapping)

\* [id_mapping.get(tid) for tid in playlist.track_ids if tid in id_mapping]
RECURSIVE map_track_ids(_, _)
map_track_ids(track_ids, id_mapping) ==
    IF track_ids = <<>> THEN <<>>
    ELSE (IF Head(track_ids) \in DOMAIN id_mapping
          THEN <<id_mapping[Head(track_ids)]>> ELSE <<>>)
         \o map_track_ids(Tail(track_ids), id_mapping)

\* The second loop of merge_collections: one new root playlist in target for
\* every playlist of source; m = [target, pls, id_mapping, next].
RECURSIVE merge_playlists(_, _)
merge_playlists(playlist_ids, m) ==
    IF playlist_ids = <<>> THEN m
    ELSE LET playlist == m.pls[Head(playlist_ids)]
             pls      == Store(m.pls, m.next,
                            Playlist(playlist.name, playlist.description,
                                     map_track_ids(playlist.track_ids, m.id_mapping),
                                     None))
         IN  merge_playlists(Tail(playlist_ids),
                [m EXCEPT !.pls = pls,
                          !.target = add_playlist(@, pls, m.next),
                          !.next = @ + 1])

\* ConversionService.merge_collections(source, target):
\* [target, pls, id_mapping, next] afterwards.
merge_collections(src, target, pls, next) ==
    merge_playlists(src.playlists,
        merge_tracks(src.tracks,
            [target |-> target, pls |-> pls, id_mapping |-> NoHeap, next |-> next]))

\* -------------------------------------------------------- Rekordbox exporter

\* str(uuid).replace('-', ''): the 32 hex digits of the id.
hex_id(id) == <<"hex", id>>

\* s.replace(old, new) for single characters
replace_char(s, old, new) == [i \in 1..Len(s) |-> IF s[i] = old THEN new ELSE s[i]]

\* s.lstrip(ch)
RECURSIVE lstrip(_, _)
lstrip(s, ch) == IF s # <<>> /\ Head(s) = ch THEN lstrip(Tail(s), ch) ELSE s

\* os.name of the interpreter that runs the exporter.
os_name == "posix"

FileScheme == <<"f", "i", "l", "e", ":", "/", "/">>

\* RekordboxExporter._format_location
format_location(file_path) ==
    IF os_name = "nt"
    THEN IF startswith(file_path, <<"\\", "\\">>)
         THEN FileScheme \o <<"/">> \o replace_char(file_path, "\\", "/")
         ELSE FileScheme \o <<"/">> \o lstrip(replace_char(file_path, "\\", "/"), "/")
    ELSE FileScheme \o file_path

\* A mutant of pad_number: the index is written as it is.
pad_number_keeps_index(index) == index

\* cue.index if cue.index >= 0 else 0
pad_number(index) == IF index >= 0 THEN index ELSE 0

\* A mutant of cue_type_code: the option is not looked at.
cue_type_code_ignores_option(cue, convert_hot_cues) ==
    IF cue.type = "HOT_CUE" THEN 1 ELSE 0

\* The Rekordbox type code of a cue point: 1 (hot cue) or 0 (memory cue).
cue_type_code(cue, convert_hot_cues) ==
    IF cue.type = "HOT_CUE" /\ ~convert_hot_cues THEN 1 ELSE 0

\* The POSITION_MARK of a cue point.
cue_position_mark(cue, convert_hot_cues) ==
    [Name  |-> cue.name,
     Type  |-> cue_type_code(cue, convert_hot_cues),
     Start |-> seconds_to_ms(cue.position),
     Num   |-> pad_number(cue.index)]

\* The POSITION_MARK of a loop.
loop_position_mark(loop) ==
    [Name  |-> loop.name,
     Type  |-> 2,
     Start |-> seconds_to_ms(loop.start_position),
     End   |-> seconds_to_ms(loop.end_position),
     Num   |-> pad_number(loop.index)]

\* RekordboxExporter._add_cue_points_to_track: the POSITION_MARK children of
\* a TRACK, the cue points first, then the loops.
add_cue_points_to_track(track, cues, options) ==
    [i \in 1..Len(track.cue_points) |->
        cue_position_mark(cues[track.cue_points[i]],
                          options.convert_hot_cues_to_memory_cues)]
    \o [i \in 1..Len(track.loops) |-> loop_position_mark(track.loops[i])]

\* RekordboxExporter._add_track_to_collection: one TRACK record.
add_track_to_collection(track, cues, options) ==
    [TrackID       |-> hex_id(track.id),
     Name          |-> track.title,
     Artist        |-> track.artist,
     TotalTime     |-> track.duration,
     Location      |-> format_location(track.file_path),
     Rating        |-> track.rating,
     AverageBpm    |-> track.bpm,
     POSITION_MARK |-> add_cue_points_to_track(track, cues, options)]

\* A mutant of playlist_track_refs: a reference is written for every id.
playlist_track_refs_unchecked(track_ids, c) ==
    [i \in 1..Len(track_ids) |-> [Key |-> hex_id(track_ids[i])]]

\* The TRACK references of a leaf playlist: one per track id that
\* collection.get_track finds.
RECURSIVE playlist_track_refs(_, _)
playlist_track_refs(track_ids, c) ==
    IF track_ids = <<>> THEN <<>>
    ELSE (IF get_track(c, Head(track_ids)) # <<>>
          THEN <<[Key |-> hex_id(Head(track_ids))]>> ELSE <<>>)
         \o playlist_track_refs(Tail(track_ids), c)

\* A mutant of add_playlist_to_node: a playlist that lists tracks is written
\* as a leaf, whether it has children or not.
RECURSIVE add_playlist_to_node_tracks_first(_, _, _)
add_playlist_to_node_tracks_first(id, c, pls) ==
    LET playlist == pls[id]
    IN  IF playlist.children # <<>> /\ playlist.track_ids = <<>>
        THEN [Type  |-> 0,
              Name  |-> playlist.name,
              Count |-> Len(playlist.children),
              NODE  |-> [i \in 1..Len(playlist.children) |->
                            add_playlist_to_node_tracks_first(playlist.children[i], c, pls)]]
        ELSE [Type    |-> 1,
              Name    |-> playlist.name,
              KeyType |-> 0,
              Entries |-> Len(playlist.track_ids),
              TRACK   |-> playlist_track_refs(playlist.track_ids, c)]

\* RekordboxExporter._add_playlist_to_node: the NODE written for a playlist,
\* a folder (Type 0) when it has children, a playlist (Type 1) otherwise.
RECURSIVE add_playlist_to_node(_, _, _)
add_playlist_to_node(id, c, pls) ==
    LET playlist == pls[id]
    IN  IF playlist.children # <<>>
        THEN [Type  |-> 0,
              Name  |-> playlist.name,
              Count |-> Len(playlist.children),
              NODE  |-> [i \in 1..Len(playlist.children) |->
                            add_playlist_to_node(playlist.children[i], c, pls)]]
        ELSE [Type    |-> 1,
              Name    |-> playlist.name,
              KeyType |-> 0,
              Entries |-> Len(playlist.track_ids),
              TRACK   |-> playlist_track_refs(playlist.track_ids, c)]

\* for playlist_id in collection.root_playlists: the NODE of every root
\* playlist that collection.get_playlist finds.
RECURSIVE root_nodes(_, _, _)
root_nodes(ids, c, pls) ==
    IF ids = <<>> THEN <<>>
    ELSE (IF get_playlist(c, Head(ids)) # <<>>
          THEN <<add_playlist_to_node(Head(ids), c, pls)>> ELSE <<>>)
         \o root_nodes(Tail(ids), c, pls)

\* RekordboxExporter.export_library: the DJ_PLAYLISTS document written.
export_library(c, cues, pls, options) ==
    [COLLECTION |->
        [Entries |-> Len(c.tracks),
         TRACK   |-> [i \in 1..Len(c.tracks) |->
                        add_track_to_collection(c.tracks[i], cues, options)]],
     PLAYLISTS |->
        [Type  |-> 0,
         Name  |-> "ROOT",
         Count |-> Len(c.root_playlists),
         NODE  |-> root_nodes(c.root_playlists, c, pls)]]

\* What can go wrong in export_library: nothing; an exception while the
\* document is built and serialised (a text the XML parser rejects); an
\* exception of open(file_path, 'w'); an exception of f.write or of closing
\* the file, after open has truncated it.
ExportFaults == {"none", "serialize", "open", "write"}

\* The try/except of export_library around the serialisation and
\* "with open(file_path, 'w') as f: f.write(pretty_xml)": the value returned
\* and what the destination path holds afterwards.
write_document(fault, held) ==
    [ok   |-> fault = "none",
     dest |-> IF fault = "none" THEN "complete"
              ELSE IF fault = "write" THEN "partial"
              ELSE held]

\* ------------------------------------------------------- input documents

s_V == <<"V">>
s_a == <<"a">>

\* A cue element of each kind the importer tells apart.
HotCueElem == [TYPE |-> <<"cue">>, START |-> Num(1001), HOTCUE |-> Num(0), NAME |-> "c"]
GridElem == [TYPE |-> <<"grid">>, START |-> Num(0), HOTCUE |-> Absent, NAME |-> "g"]

Entry(location, title, playtime) ==
    [LOCATION |-> location, TITLE |-> title, ARTIST |-> "x",
     INFO |-> <<[PLAYTIME |-> playtime, RANKING |-> Num(3)]>>,
     TEMPO |-> <<[BPM |-> Num(128)]>>,
     CUE_V2 |-> <<HotCueElem, GridElem>>, LOOP |-> <<>>]

\* V/:d + a: file path V/d/a, stored Traktor path V/:d/:a
LocA == [VOLUME |-> s_V, DIR |-> <<"/", ":", "d">>, FILE |-> s_a]
\* V/:e/: + a (DIR as Traktor writes it, with a closing "/:"): file path V/e/a
LocB == [VOLUME |-> s_V, DIR |-> <<"/", ":", "e", "/", ":">>, FILE |-> s_a]

EntA == Entry(<<LocA>>, "A", Num(180))
EntB == Entry(<<LocB>>, "B", Absent)
EntNoLocation == Entry(<<>>, "N", Num(180))
EntBadPlaytime == Entry(<<LocA>>, "X", Junk)

EntryKinds == {EntA, EntB, EntNoLocation, EntBadPlaytime}

\* The KEY of a playlist ENTRY: the stored path of EntA; a path with the
\* filename of EntA and EntB under another directory; a path no track has;
\* an empty key; a key without "/:".
KeyA == <<"V", "/", ":", "d", "/", ":", "a">>
KeySameFile == <<"V", "/", ":", "x", "/", ":", "a">>
KeyNoTrack == <<"V", "/", ":", "d", "/", ":", "c">>
KeyEmpty == <<>>
KeyNoSep == <<"a">>

KeyKinds == {KeyA, KeySameFile, KeyNoTrack, KeyEmpty, KeyNoSep}
\* the stored path of EntB
KeyB == <<"V", "/", ":", "e", "/", ":", "/", ":", "a">>

Range(q) == {q[i] : i \in 1..Len(q)}

\* The sequences over S of length at most n.
RECURSIVE SeqsUpTo(_, _)
SeqsUpTo(S, n) ==
    IF n = 0 THEN {<<>>}
    ELSE LET shorter == SeqsUpTo(S, n - 1)
         IN  shorter \cup {Append(q, x) : q \in shorter, x \in S}

PlaylistNode(keys) ==
    [TYPE |-> "PLAYLIST", NAME |-> "p", SUBNODES |-> <<>>, NODE |-> <<>>,
     PLAYLIST |-> <<[i \in 1..Len(keys) |-> <<keys[i]>>]>>]
\* a PLAYLIST node without its PLAYLIST element
BarePlaylistNode ==
    [TYPE |-> "PLAYLIST", NAME |-> "q", SUBNODES |-> <<>>, NODE |-> <<>>, PLAYLIST |-> <<>>]
\* a node of a type the importer does not know
SmartlistNode ==
    [TYPE |-> "SMARTLIST", NAME |-> "s", SUBNODES |-> <<>>, NODE |-> <<>>, PLAYLIST |-> <<>>]
\* a FOLDER whose children are in a SUBNODES element
FolderNode(children) ==
    [TYPE |-> "FOLDER", NAME |-> "f", SUBNODES |-> <<children>>, NODE |-> <<>>,
     PLAYLIST |-> <<>>]
\* a FOLDER whose children are its direct NODE children
FlatFolderNode(children) ==
    [TYPE |-> "FOLDER", NAME |-> "d", SUBNODES |-> <<>>, NODE |-> children,
     PLAYLIST |-> <<>>]

LeafNodes == {PlaylistNode(<<KeyA>>), BarePlaylistNode, SmartlistNode}

\* The node trees of exactly n nodes, and the lists of trees of n nodes in all.
RECURSIVE Trees(_)
RECURSIVE Forests(_)
Trees(n) ==
    (IF n = 1 THEN LeafNodes ELSE {})
    \cup {FolderNode(f) : f \in Forests(n - 1)}
    \cup {FlatFolderNode(f) : f \in Forests(n - 1)}

Forests(n) ==
    IF n = 0 THEN {<<>>}
    ELSE UNION {{<<t>> \o f : t \in Trees(k), f \in Forests(n - k)} : k \in 1..n}

\* file tells what becomes of reading the file: "ok", "other_name" (a name
\* that does not end with .nml), "unreadable" (open fails) or "malformed"
\* (the XML parser rejects it).
Document(root, entries, nodes) ==
    [file |-> "ok", root |-> root, COLLECTION |-> entries, PLAYLISTS |-> nodes]

\* Playlist trees of every shape over a library of two tracks.
ShapeDocs ==
    {Document("NML", <<<<EntA, EntB>>>>, <<f>>) :
        f \in UNION {Forests(n) : n \in 0..MaxNodes}}

\* One playlist of every list of keys over every library.
KeyDocs ==
    {Document("NML", <<es>>, <<<<PlaylistNode(ks)>>>>) :
        es \in SeqsUpTo(EntryKinds, MaxEntries), ks \in SeqsUpTo(KeyKinds, MaxKeys)}

\* Documents without a section, one that is not NML, and files that are not
\* read.
OddDocs ==
    {Document("NML", <<>>, <<<<PlaylistNode(<<KeyA>>)>>>>),
     Document("NML", <<<<EntA>>>>, <<>>),
     Document("DJ_PLAYLISTS", <<<<EntA>>>>, <<<<PlaylistNode(<<KeyA>>)>>>>),
     [Document("NML", <<<<EntA>>>>, <<<<PlaylistNode(<<KeyA>>)>>>>) EXCEPT !.file = "other_name"],
     [Document("NML", <<<<EntA>>>>, <<<<PlaylistNode(<<KeyA>>)>>>>) EXCEPT !.file = "unreadable"],
     [Document("NML", <<<<EntA>>>>, <<<<PlaylistNode(<<KeyA>>)>>>>) EXCEPT !.file = "malformed"]}

\* One track with one cue at every whole millisecond up to MaxStart.
StartDocs ==
    {Document("NML",
              <<<<[EntA EXCEPT !.CUE_V2 = <<[HotCueElem EXCEPT !.START = Num(m)]>>]>>>>,
              <<<<>>>>) : m \in 0..MaxStart}

\* One playlist of the keys of both tracks and a key of no track, in every
\* order.
OrderDocs ==
    {Document("NML", <<<<EntA, EntB>>>>, <<<<PlaylistNode(ks)>>>>) :
        ks \in {q \in SeqsUpTo({KeyA, KeyB, KeyNoTrack}, 3) :
                    Len(q) = 3 /\ Cardinality(Range(q)) = 3}}

\* The TYPE strings of a CUE_V2 element: the six the importer's table knows,
\* and strings it does not know (Traktor's own numeric codes, another case).
KnownCueTypeStrs == {"cue", "fade-in", "fade-out", "load", "grid", "loop"}
OtherCueTypeStrs == {"4", "Grid", ""}

\* One track with one cue of every TYPE (or none), with and without HOTCUE.
TypeDocs ==
    {Document("NML",
              <<<<[EntA EXCEPT !.CUE_V2 = <<[HotCueElem EXCEPT !.TYPE = ty, !.HOTCUE = hc]>>]>>>>,
              <<<<>>>>) :
        ty \in {<<>>} \cup {<<x>> : x \in KnownCueTypeStrs \cup OtherCueTypeStrs},
        hc \in {Absent, Num(2)}}

Docs == ShapeDocs \cup KeyDocs \cup OddDocs \cup StartDocs \cup OrderDocs \cup TypeDocs

NoDoc == Document("", <<>>, <<>>)

\* ------------------------------------------------------------- operations

\* No call of ConversionOrchestrator.convert.
NoRun ==
    [input_format |-> "", output_format |-> "",
     options |-> [convert_hot_cues_to_memory_cues |-> FALSE],
     progress |-> <<>>, calls |-> <<>>, result |-> <<>>, raised |-> FALSE]

\* call: the last call made on an entity directly, <<>> before the first;
\* made: the number of these calls.
NoGhost ==
    [nodeOf |-> NoHeap, entryOf |-> NoHeap, id_mapping |-> NoHeap, call |-> <<>>,
     made |-> 0]

Snapshot ==
    [collection |-> collection, source |-> source, cueHeap |-> cueHeap,
     plHeap |-> plHeap, pc |-> pc]

\* importer.import_library(file_path), called with room for frames nested
\* calls: at least the TrackFrames every entry is read with.
ImportLibrary ==
    /\ pc = "start"
    /\ \E frames \in TrackFrames..MaxFrames :
       \E r \in {import_library(doc,
                    [c |-> collection, cues |-> cueHeap, pls |-> plHeap,
                     next |-> nextId, nodeOf |-> ghost.nodeOf,
                     entryOf |-> ghost.entryOf], frames)} :
           /\ collection' = r.st.c
           /\ cueHeap' = r.st.cues
           /\ plHeap' = r.st.pls
           /\ nextId' = r.st.next
           /\ ghost' = [ghost EXCEPT !.nodeOf = r.st.nodeOf,
                                     !.entryOf = r.st.entryOf]
           /\ pc' = IF r.ok THEN "import" ELSE "import_failed"
    /\ pre' = <<Snapshot>>
    /\ UNCHANGED <<doc, source, xml, dest, orch>>

\* conversion_service.convert_hot_cues_to_memory_cues(collection)
ConvertHotCues ==
    /\ pc \in {"import", "built", "merge", "convert"}
    /\ cueHeap' = convert_hot_cues_to_memory_cues(collection, cueHeap)
    /\ pc' = "convert"
    /\ pre' = <<Snapshot>>
    /\ UNCHANGED <<doc, collection, source, plHeap, ghost, xml, nextId, dest, orch>>

\* conversion_service.merge_collections(source, collection)
MergeCollections ==
    /\ pc = "built"
    /\ LET m == merge_collections(source, collection, plHeap, nextId)
       IN  /\ collection' = m.target
           /\ plHeap' = m.pls
           /\ nextId' = m.next
           /\ ghost' = [ghost EXCEPT !.id_mapping = m.id_mapping]
    /\ pc' = "merge"
    /\ pre' = <<Snapshot>>
    /\ UNCHANGED <<doc, source, cueHeap, xml, dest, orch>>

\* exporter.export_library(collection, file_path, options): on success the
\* destination holds the document, and pc is "export".
ExportLibrary(options) ==
    /\ pc \in {"import", "built", "convert", "merge"}
    /\ \E fault \in ExportFaults :
          LET written == write_document(fault, dest)
          IN  /\ xml' = IF written.ok
                        THEN <<[options |-> options,
                                document |-> export_library(collection, cueHeap,
                                                            plHeap, options)]>>
                        ELSE xml
              /\ dest' = written.dest
              /\ pc' = IF written.ok THEN "export" ELSE "export_failed"
    /\ pre' = <<Snapshot>>
    /\ UNCHANGED <<doc, collection, source, cueHeap, plHeap, ghost, nextId, orch>>

Options == [convert_hot_cues_to_memory_cues : BOOLEAN]

Export == \E options \in Options : ExportLibrary(options)

\* ---------------------------------------------------------- specifications

\* A conversion run: a document is imported, the imported collection is
\* converted or not, and exported.
Init ==
    /\ doc \in Docs
    /\ collection = Collection("DJ Collection")
    /\ source = Collection("DJ Collection")
    /\ cueHeap = NoHeap
    /\ plHeap = NoHeap
    /\ ghost = NoGhost
    /\ xml = <<>>
    /\ nextId = 1
    /\ pc = "start"
    /\ pre = <<>>
    /\ dest = "previous"
    /\ orch = NoRun

Next == ImportLibrary \/ ConvertHotCues \/ Export

\* ------------------------------------------------- ConversionOrchestrator

\* The format names a caller passes, and str.lower() on them.
FormatNames == {"Traktor", "traktor", "Rekordbox", "REKORDBOX", "Serato"}

lower(format_name) ==
    CASE format_name \in {"Traktor", "traktor"} -> "traktor"
      [] format_name \in {"Rekordbox", "REKORDBOX"} -> "rekordbox"
      [] OTHER -> "serato"

\* The registries after register(TraktorImporter()) and
\* register(RekordboxExporter()): keyed by format_name.lower().
importers == {lower("Traktor")}
exporters == {lower("Rekordbox")}

\* ImporterRegistry.get_importer / ExporterRegistry.get_exporter: TRUE when
\* an adapter is found.
get_importer(format_name) == lower(format_name) \in importers
get_exporter(format_name) == lower(format_name) \in exporters

\* ImportLibraryUseCase.execute: raised = TRUE for the ValueError of a
\* format without importer; otherwise what import_library returns or raises.
import_execute(format_name, d, st, frames) ==
    IF ~get_importer(format_name)
    THEN [raised |-> TRUE, ok |-> FALSE, st |-> st]
    ELSE import_library(d, st, frames)

\* ExportLibraryUseCase.execute: raised = TRUE for the ValueError of a
\* format without exporter; otherwise what export_library returns and
\* leaves at the destination.
export_execute(format_name, fault, held) ==
    IF ~get_exporter(format_name)
    THEN [raised |-> TRUE, ok |-> FALSE, dest |-> held]
    ELSE LET w == write_document(fault, held)
         IN  [raised |-> FALSE, ok |-> w.ok, dest |-> w.dest]

\* self._report_progress(percentage, message) with a callback set: the
\* notification is added to those delivered; failure tells the messages
\* "Failed to ..." and "Error ..." from the others.
report_progress(run, percentage, failure) ==
    [run EXCEPT !.progress = Append(@, [percentage |-> percentage,
                                        failure |-> failure])]

\* A mutant of report_failure: the failure is not notified.
report_failure_silent(run) == run

\* The notification at 100 of a failed stage (lines 70, 73, 82, 95, 98).
report_failure(run) == report_progress(run, 100, TRUE)

\* A mutant of return_false: the exception is raised again instead.
return_false_raises(run) == [run EXCEPT !.raised = TRUE]

\* return False after the notification of a failed stage (lines 71, 74, 83,
\* 96, 99)
return_false(run) == [run EXCEPT !.result = <<FALSE>>]

\* What can go wrong in convert_hot_cues_to_memory_cues as convert calls it:
\* nothing, or an exception raised before a cue point is replaced.
ProcessFaults == {"none", "raise"}

\* convert, line 66: the notification at 10.  The callback runs before the
\* import stage is entered.
ReportImporting ==
    /\ pc = "convert_called"
    /\ orch' = report_progress(orch, 10, FALSE)
    /\ pc' = "convert_importing"
    /\ pre' = <<Snapshot>>
    /\ UNCHANGED <<doc, collection, source, cueHeap, plHeap, ghost, xml, nextId, dest>>

\* convert, lines 67-69 and 72: the import stage, import_library called with
\* room for frames nested calls.  An exception of the stage, the ValueError
\* of the use case included, is caught by convert's except clause.
OrchestratorImport ==
    /\ pc = "convert_importing"
    /\ \E frames \in TrackFrames..MaxFrames :
       \E r \in {import_execute(orch.input_format, doc,
                    [c |-> collection, cues |-> cueHeap, pls |-> plHeap,
                     next |-> nextId, nodeOf |-> ghost.nodeOf,
                     entryOf |-> ghost.entryOf], frames)} :
           /\ collection' = r.st.c
           /\ cueHeap' = r.st.cues
           /\ plHeap' = r.st.pls
           /\ nextId' = r.st.next
           /\ ghost' = [ghost EXCEPT !.nodeOf = r.st.nodeOf,
                                     !.entryOf = r.st.entryOf]
           /\ pc' = IF r.ok THEN "convert_imported" ELSE "convert_import_failed"
    /\ orch' = [orch EXCEPT !.calls = Append(@, "import")]
    /\ pre' = <<Snapshot>>
    /\ UNCHANGED <<doc, source, xml, dest>>

\* convert, line 77: the notification at 40, before the conversion.
ReportProcessing ==
    /\ pc = "convert_imported"
    /\ orch' = report_progress(orch, 40, FALSE)
    /\ pc' = "convert_processing"
    /\ pre' = <<Snapshot>>
    /\ UNCHANGED <<doc, collection, source, cueHeap, plHeap, ghost, xml, nextId, dest>>

\* convert, lines 78-81: the conversion the options ask for; an exception it
\* raises is caught by convert's except clause.
OrchestratorProcess ==
    /\ pc = "convert_processing"
    /\ \E fault \in ProcessFaults :
       LET wanted == orch.options.convert_hot_cues_to_memory_cues
           raises == wanted /\ fault = "raise"
       IN  /\ cueHeap' = IF wanted /\ ~raises
                         THEN convert_hot_cues_to_memory_cues(collection, cueHeap)
                         ELSE cueHeap
           /\ orch' = IF wanted THEN [orch EXCEPT !.calls = Append(@, "process")]
                      ELSE orch
           /\ pc' = IF raises THEN "convert_process_failed" ELSE "convert_processed"
    /\ pre' = <<Snapshot>>
    /\ UNCHANGED <<doc, collection, source, plHeap, ghost, xml, nextId, dest>>

\* convert, line 86: the notification at 70, before the export.
ReportExporting ==
    /\ pc = "convert_processed"
    /\ orch' = report_progress(orch, 70, FALSE)
    /\ pc' = "convert_exporting"
    /\ pre' = <<Snapshot>>
    /\ UNCHANGED <<doc, collection, source, cueHeap, plHeap, ghost, xml, nextId, dest>>

\* convert, lines 87-94 and 97: the export stage.
OrchestratorExport ==
    /\ pc = "convert_exporting"
    /\ \E fault \in ExportFaults :
       LET w == export_execute(orch.output_format, fault, dest)
       IN  /\ xml' = IF w.ok
                     THEN <<[options |-> orch.options,
                             document |-> export_library(collection, cueHeap, plHeap,
                                                         orch.options)]>>
                     ELSE xml
           /\ dest' = w.dest
           /\ pc' = IF w.ok THEN "convert_exported" ELSE "convert_export_failed"
    /\ orch' = [orch EXCEPT !.calls = Append(@, "export")]
    /\ pre' = <<Snapshot>>
    /\ UNCHANGED <<doc, collection, source, cueHeap, plHeap, ghost, nextId>>

\* convert, lines 70, 73, 82, 95 and 98: the notification at 100 of the stage
\* that failed.
ReportFailure ==
    /\ pc \in {"convert_import_failed", "convert_process_failed",
               "convert_export_failed"}
    /\ orch' = report_failure(orch)
    /\ pc' = "convert_failed"
    /\ pre' = <<Snapshot>>
    /\ UNCHANGED <<doc, collection, source, cueHeap, plHeap, ghost, xml, nextId, dest>>

\* convert, lines 71, 74, 83, 96 and 99: return False
ReturnFalse ==
    /\ pc = "convert_failed"
    /\ orch' = return_false(orch)
    /\ pc' = "convert_returned"
    /\ pre' = <<Snapshot>>
    /\ UNCHANGED <<doc, collection, source, cueHeap, plHeap, ghost, xml, nextId, dest>>

\* convert, line 101: the notification at 100 of a conversion that is done.
ReportCompleted ==
    /\ pc = "convert_exported"
    /\ orch' = report_progress(orch, 100, FALSE)
    /\ pc' = "convert_completed"
    /\ pre' = <<Snapshot>>
    /\ UNCHANGED <<doc, collection, source, cueHeap, plHeap, ghost, xml, nextId, dest>>

\* convert, line 102: return True
ReturnTrue ==
    /\ pc = "convert_completed"
    /\ orch' = [orch EXCEPT !.result = <<TRUE>>]
    /\ pc' = "convert_returned"
    /\ pre' = <<Snapshot>>
    /\ UNCHANGED <<doc, collection, source, cueHeap, plHeap, ghost, xml, nextId, dest>>

\* The documents convert is called on: files that are not read, documents
\* without a section or that are not NML, libraries of two tracks under one
\* or two playlist nodes, and one under a playlist in two nested folders,
\* which an import with room for no more than the tracks gives up.
ConvertDocs ==
    OddDocs \cup OrderDocs
    \cup {Document("NML", <<<<EntA, EntB>>>>, <<f>>) : f \in Forests(1) \cup Forests(2)}
    \cup {Document("NML", <<<<EntA, EntB>>>>,
                    <<<<FolderNode(<<FolderNode(<<PlaylistNode(<<KeyA>>)>>)>>)>>>>)}

\* convert(input_file, input_format, output_file, output_format, options)
\* is called, with a progress callback set.
InitConvert ==
    /\ doc \in ConvertDocs
    /\ collection = Collection("DJ Collection")
    /\ source = Collection("DJ Collection")
    /\ cueHeap = NoHeap
    /\ plHeap = NoHeap
    /\ ghost = NoGhost
    /\ xml = <<>>
    /\ nextId = 1
    /\ pc = "convert_called"
    /\ pre = <<>>
    /\ dest = "previous"
    /\ \E input_format, output_format \in FormatNames, options \in Options :
          orch = [NoRun EXCEPT !.input_format = input_format,
                               !.output_format = output_format,
                               !.options = options]

NextConvert ==
    \/ ReportImporting \/ OrchestratorImport
    \/ ReportProcessing \/ OrchestratorProcess
    \/ ReportExporting \/ OrchestratorExport
    \/ ReportFailure \/ ReturnFalse
    \/ ReportCompleted \/ ReturnTrue

\* A run of ConversionOrchestrator.convert.
SpecConvert == InitConvert /\ [][NextConvert]_vars

Spec == Init /\ [][Next]_vars

\* ------------------------------------------------- collections built directly
\* Collections as a caller builds them with the constructors and Track.
\* add_cue_point, Playlist.add_track, Playlist.add_child,
\* Collection.add_track and Collection.add_playlist.

\* The sequences over S of length exactly n.
RECURSIVE SeqsOfLen(_, _)
SeqsOfLen(S, n) ==
    IF n = 0 THEN {<<>>}
    ELSE {Append(q, x) : q \in SeqsOfLen(S, n - 1), x \in S}

NoDup(q) == \A i, j \in 1..Len(q) : q[i] = q[j] => i = j

\* Cue points of every type, unassigned (index -1) at 1.001 s, and hot and
\* memory cues on a pad.
CueKinds ==
    {CuePoint("c", 1001, t, DefaultColor, -1) : t \in CueTypes}
    \cup {CuePoint("h", 0, "HOT_CUE", DefaultColor, 0),
          CuePoint("h", 12345, "HOT_CUE", DefaultColor, 2),
          CuePoint("m", 10000, "MEMORY_CUE", DefaultColor, 1)}

\* The lists of at most t tracks, each a list of cue points, with at most n cue
\* points in all.
RECURSIVE CueLayouts(_, _)
CueLayouts(t, n) ==
    IF t = 0 THEN {<<>>}
    ELSE {<<>>} \cup
         UNION {{<<cs>> \o rest : cs \in SeqsOfLen(CueKinds, k),
                                  rest \in CueLayouts(t - 1, n - k)} : k \in 0..n}

p_a == <<"/", "m", "/", "a">>
p_b == <<"/", "m", "/", "b">>

\* A track of the library: title and file path.
TrackKinds ==
    {[title |-> "A", file_path |-> p_a],
     [title |-> "B", file_path |-> p_a],
     [title |-> "C", file_path |-> p_b]}

\* track = Track(title, artist, file_path); track.add_cue_point(CuePoint(...))
\* for each cue; collection.add_track(track).  b = [c, cues, next].
RECURSIVE store_cues(_, _, _)
store_cues(cs, cues, next) ==
    IF cs = <<>> THEN cues
    ELSE store_cues(Tail(cs), Store(cues, next, Head(cs)), next + 1)

build_track(kind, cs, b) ==
    [b EXCEPT
        !.c = add_track(@,
                Track(b.next, kind.title, "x", kind.file_path, 0, 0, 0,
                      [i \in 1..Len(cs) |-> b.next + i], <<>>, NoTags)),
        !.cues = store_cues(cs, @, b.next + 1),
        !.next = @ + 1 + Len(cs)]

\* One track per list of cue points of a layout.
RECURSIVE build_cue_tracks(_, _)
build_cue_tracks(layout, b) ==
    IF layout = <<>> THEN b
    ELSE build_cue_tracks(Tail(layout),
            build_track([title |-> "T", file_path |-> p_a], Head(layout), b))

\* One track, with one hot cue, per track kind of a list.
RECURSIVE build_tracks(_, _)
build_tracks(kinds, b) ==
    IF kinds = <<>> THEN b
    ELSE build_tracks(Tail(kinds),
            build_track(Head(kinds), <<CuePoint("h", 0, "HOT_CUE", DefaultColor, 0)>>, b))

\* A playlist to build: [refs, children]; a ref is the number of a track of
\* the collection, 0 the id of no track (a uuid that is no key of tracks).
\* The forests of exactly n playlists with exactly r refs in all, refs drawn
\* from 0..t without repeating one in a playlist.
RECURSIVE PlaylistTrees(_, _, _)
RECURSIVE PlaylistForests(_, _, _)
PlaylistTrees(n, r, t) ==
    UNION {{[refs |-> l, children |-> f] :
                l \in {q \in SeqsOfLen(0..t, k) : NoDup(q)},
                f \in PlaylistForests(n - 1, r - k, t)} : k \in 0..r}

PlaylistForests(n, r, t) ==
    IF n = 0 THEN (IF r = 0 THEN {<<>>} ELSE {})
    ELSE UNION {{<<x>> \o f : x \in PlaylistTrees(k, q, t),
                              f \in PlaylistForests(n - k, r - q, t)} :
                    k \in 1..n, q \in 0..r}

PlaylistLayouts(t) ==
    UNION {PlaylistForests(n, r, t) : n \in 0..MaxPlaylists, r \in 0..MaxRefs}

\* The id a ref stands for: the id of the track of that number, or the id
\* kept for no track.
ref_id(ref, c, missing) == IF ref = 0 THEN missing ELSE c.tracks[ref].id

\* playlist = Playlist(name); playlist.add_track(id) for each ref; the children
\* are built and joined with playlist.add_child(child); each is added with
\* collection.add_playlist once its parent_id is set.
\* b = [c, pls, next, ids]; ids lists the playlists built at this level.
RECURSIVE build_playlist(_, _, _, _)
RECURSIVE build_playlists(_, _, _, _)
build_playlist(spec, parent_id, missing, b) ==
    LET id   == b.next
        made == Store(b.pls, id,
                    Playlist("pl", "", [i \in 1..Len(spec.refs) |->
                                           ref_id(spec.refs[i], b.c, missing)],
                             parent_id))
        kids == build_playlists(spec.children, id, missing,
                    [b EXCEPT !.pls = made,
                              !.c = add_playlist(@, made, id),
                              !.next = id + 1,
                              !.ids = <<>>])
    IN  [kids EXCEPT !.pls[id].children = kids.ids,
                     !.ids = Append(b.ids, id)]

build_playlists(specs, parent_id, missing, b) ==
    IF specs = <<>> THEN b
    ELSE build_playlists(Tail(specs), parent_id, missing,
            build_playlist(Head(specs), parent_id, missing, b))

\* A collection of the tracks kinds (each with a hot cue) and the playlists
\* layout, built from the fresh id first: [c, cues, pls, next].
build_collection(kinds, layout, cues, pls, first) ==
    LET t == build_tracks(kinds, [c |-> Collection("DJ Collection"), cues |-> cues,
                                  next |-> first])
        p == build_playlists(layout, None, t.next,
                [c |-> t.c, pls |-> pls, next |-> t.next + 1, ids |-> <<>>])
    IN  [c |-> p.c, cues |-> t.cues, pls |-> p.pls, next |-> p.next]

\* A collection of tracks with the cue points of a layout and no playlist.
build_cue_collection(layout) ==
    LET t == build_cue_tracks(layout, [c |-> Collection("DJ Collection"),
                                       cues |-> NoHeap, next |-> 1])
    IN  [c |-> t.c, cues |-> t.cues, pls |-> NoHeap, next |-> t.next]

\* Loops without a pad (index -1, the default), with another negative index,
\* and on a pad.
LoopKinds ==
    {[name |-> "l", start_position |-> 1001, end_position |-> 2002, index |-> n] :
        n \in {-1, -3, 0, 2}}

\* track.add_loop(Loop(...)) for each loop of a list, ids from first on.
build_loops(ls, first) ==
    [i \in 1..Len(ls) |->
        Loop(first + i - 1, ls[i].name, ls[i].start_position, ls[i].end_position,
             "REGULAR", DefaultColor, ls[i].index)]

\* A collection of one track with a cue point of a negative index other than
\* -1 and the loops of a list.
build_loop_collection(ls) ==
    LET t == build_track([title |-> "T", file_path |-> p_a],
                         <<CuePoint("n", 500, "MEMORY_CUE", DefaultColor, -3)>>,
                         [c |-> Collection("DJ Collection"), cues |-> NoHeap,
                          next |-> 1])
    IN  [c |-> [t.c EXCEPT !.tracks[1].loops = build_loops(ls, t.next)],
         cues |-> t.cues, pls |-> NoHeap, next |-> t.next + Len(ls)]

\* The collections the service and the exporter are run on: tracks with cue
\* points of every kind, a track with loops of every kind, and two tracks
\* under playlists of every layout.
ServiceCollections ==
    {build_cue_collection(l) : l \in CueLayouts(MaxTracks, MaxCues)}
    \cup {build_loop_collection(ls) : ls \in SeqsUpTo(LoopKinds, MaxLoops)}
    \cup {build_collection(<<[title |-> "A", file_path |-> p_a],
                             [title |-> "C", file_path |-> p_b]>>, l, NoHeap, NoHeap, 1) :
            l \in PlaylistLayouts(2)}

InitService ==
    /\ doc = NoDoc
    /\ \E b \in ServiceCollections :
          /\ collection = b.c
          /\ cueHeap = b.cues
          /\ plHeap = b.pls
          /\ nextId = b.next
    /\ source = Collection("DJ Collection")
    /\ ghost = NoGhost
    /\ xml = <<>>
    /\ pc = "built"
    /\ pre = <<>>
    /\ dest = "previous"
    /\ orch = NoRun

NextService == ConvertHotCues \/ Export

\* One playlist of the tracks 1..n, after the id of no track when missing.
ListAll(n, missing) ==
    <<[refs |-> (IF missing THEN <<0>> ELSE <<>>) \o [i \in 1..n |-> i],
       children |-> <<>>]>>

\* A target and then a source built in the same memory: [target, source, cues,
\* pls, next].
build_pair(target_kinds, target_layout, source_kinds, source_layout) ==
    LET t == build_collection(target_kinds, target_layout, NoHeap, NoHeap, 1)
        s == build_collection(source_kinds, source_layout, t.cues, t.pls, t.next)
    IN  [target |-> t.c, source |-> s.c, cues |-> s.cues, pls |-> s.pls,
         next |-> s.next]

\* The pairs merge_collections is run on: every target and source of at most
\* MaxMergeTracks tracks in all, each with a playlist of all its tracks; and
\* a source of two tracks under playlists of every layout.
MergePairs ==
    {build_pair(tk, ListAll(Len(tk), FALSE), sk, ListAll(Len(sk), TRUE)) :
        tk \in SeqsUpTo(TrackKinds, MaxMergeTracks),
        sk \in SeqsUpTo(TrackKinds, MaxMergeTracks)}
    \cup {build_pair(<<[title |-> "A", file_path |-> p_a]>>, <<>>,
                     <<[title |-> "B", file_path |-> p_a],
                       [title |-> "C", file_path |-> p_b]>>, l) :
            l \in PlaylistLayouts(2)}

InitMerge ==
    /\ doc = NoDoc
    /\ \E b \in MergePairs :
          /\ Len(b.target.tracks) + Len(b.source.tracks) <= MaxMergeTracks
          /\ collection = b.target
          /\ source = b.source
          /\ cueHeap = b.cues
          /\ plHeap = b.pls
          /\ nextId = b.next
    /\ ghost = NoGhost
    /\ xml = <<>>
    /\ pc = "built"
    /\ pre = <<>>
    /\ dest = "previous"
    /\ orch = NoRun

NextMerge == MergeCollections \/ ConvertHotCues \/ Export

\* merge_collections, the service and the exporter on a target and a source
\* built directly.
SpecMerge == InitMerge /\ [][NextMerge]_vars

\* The service and the exporter on a collection built directly.
SpecService == InitService /\ [][NextService]_vars

\* ------------------------------------------------ entities called directly

\* Playlist(), constructed n times: the objects 1..n, without tracks, parent
\* and children.
new_playlists(n) == [p \in 1..n |-> Playlist("", "", <<>>, None)]

\* playlist.add_track(track_id) on one of the playlists
PlaylistAddTrack ==
    /\ pc = "playlists"
    /\ \E p \in DOMAIN plHeap, track_id \in 1..MaxIds :
          /\ plHeap' = [plHeap EXCEPT ![p] = playlist_add_track(@, track_id)]
          /\ ghost' = [ghost EXCEPT !.call = <<"add_track", p, track_id>>]
    /\ pre' = <<Snapshot>>
    /\ UNCHANGED <<doc, collection, source, cueHeap, xml, nextId, pc, dest, orch>>

\* playlist.remove_track(track_id) on one of the playlists
PlaylistRemoveTrack ==
    /\ pc = "playlists"
    /\ \E p \in DOMAIN plHeap, track_id \in 1..MaxIds :
          /\ plHeap' = [plHeap EXCEPT ![p] = playlist_remove_track(@, track_id)]
          /\ ghost' = [ghost EXCEPT !.call = <<"remove_track", p, track_id>>]
    /\ pre' = <<Snapshot>>
    /\ UNCHANGED <<doc, collection, source, cueHeap, xml, nextId, pc, dest, orch>>

\* Two playlists, just constructed.
InitPlaylist ==
    /\ doc = NoDoc
    /\ collection = Collection("DJ Collection")
    /\ source = Collection("DJ Collection")
    /\ cueHeap = NoHeap
    /\ plHeap = new_playlists(2)
    /\ ghost = NoGhost
    /\ xml = <<>>
    /\ nextId = 3
    /\ pc = "playlists"
    /\ pre = <<>>
    /\ dest = "previous"
    /\ orch = NoRun

NextPlaylist == PlaylistAddTrack \/ PlaylistRemoveTrack

\* Any sequence of add_track and remove_track calls on two playlists.
SpecPlaylist == InitPlaylist /\ [][NextPlaylist]_vars

\* parent.add_child(child) on two of the playlists (or on one and itself)
PlaylistAddChild ==
    /\ pc = "tree"
    /\ ghost.made < MaxCalls
    /\ \E self, playlist \in DOMAIN plHeap :
          /\ plHeap' = playlist_add_child(plHeap, self, playlist)
          /\ ghost' = [ghost EXCEPT !.call = <<"add_child", self, playlist>>,
                                    !.made = @ + 1]
    /\ pre' = <<Snapshot>>
    /\ UNCHANGED <<doc, collection, source, cueHeap, xml, nextId, pc, dest, orch>>

\* parent.remove_child(playlist_id)
PlaylistRemoveChild ==
    /\ pc = "tree"
    /\ ghost.made < MaxCalls
    /\ \E self, playlist_id \in DOMAIN plHeap :
          /\ plHeap' = playlist_remove_child(plHeap, self, playlist_id)
          /\ ghost' = [ghost EXCEPT !.call = <<"remove_child", self, playlist_id>>,
                                    !.made = @ + 1]
    /\ pre' = <<Snapshot>>
    /\ UNCHANGED <<doc, collection, source, cueHeap, xml, nextId, pc, dest, orch>>

\* collection.add_playlist(playlist)
CollectionAddPlaylist ==
    /\ pc = "tree"
    /\ ghost.made < MaxCalls
    /\ \E playlist \in DOMAIN plHeap :
          /\ collection' = add_playlist(collection, plHeap, playlist)
          /\ ghost' = [ghost EXCEPT !.call = <<"add_playlist", playlist, playlist>>,
                                    !.made = @ + 1]
    /\ pre' = <<Snapshot>>
    /\ UNCHANGED <<doc, source, cueHeap, plHeap, xml, nextId, pc, dest, orch>>

\* An empty Collection and MaxObjects playlists, just constructed.
InitTree ==
    /\ doc = NoDoc
    /\ collection = Collection("DJ Collection")
    /\ source = Collection("DJ Collection")
    /\ cueHeap = NoHeap
    /\ plHeap = new_playlists(MaxObjects)
    /\ ghost = NoGhost
    /\ xml = <<>>
    /\ nextId = MaxObjects + 1
    /\ pc = "tree"
    /\ pre = <<>>
    /\ dest = "previous"
    /\ orch = NoRun

NextTree == PlaylistAddChild \/ PlaylistRemoveChild \/ CollectionAddPlaylist

\* Up to MaxCalls calls of add_child, remove_child and add_playlist.
SpecTree == InitTree /\ [][NextTree]_vars

\* ------------------------------------------------------ PlaylistRepository
\* The repository is held in the variable collection: playlists is the dict
\* as the sequence of its items [key, obj] in insertion order, obj a key of
\* plHeap. The Playlist objects of plHeap carry their id here, since two
\* objects can have one id (a playlist and its edited copy).

\* PlaylistRepository(): no playlists, no roots.
PlaylistRepository == [playlists |-> <<>>, root_playlists |-> <<>>]

\* Playlist(id=id, parent_id=parent_id)
PlaylistWithId(id, parent_id) ==
    [id |-> id, name |-> "", description |-> "", track_ids |-> <<>>,
     parent_id |-> parent_id, children |-> <<>>]

\* playlist_id in self.playlists
stored(repo, playlist_id) ==
    \E i \in 1..Len(repo.playlists) : repo.playlists[i].key = playlist_id

\* self.playlists[playlist_id]: the object stored under the key.
stored_object(repo, playlist_id) ==
    repo.playlists[CHOOSE i \in 1..Len(repo.playlists) :
                      repo.playlists[i].key = playlist_id].obj

\* self.playlists[key] = obj
set_item(items, key, obj) ==
    IF \E i \in 1..Len(items) : items[i].key = key
    THEN [i \in 1..Len(items) |->
            IF items[i].key = key THEN [key |-> key, obj |-> obj] ELSE items[i]]
    ELSE Append(items, [key |-> key, obj |-> obj])

\* del self.playlists[key]
del_item(items, key) == SelectSeq(items, LAMBDA item : item.key # key)

\* PlaylistRepository.add
repository_add(repo, objs, playlist) ==
    [playlists |-> set_item(repo.playlists, objs[playlist].id, playlist),
     root_playlists |->
        IF objs[playlist].parent_id = None
        THEN Append(repo.root_playlists, objs[playlist].id)
        ELSE repo.root_playlists]

\* PlaylistRepository.update; the repository is as it was when the id is
\* not stored (return False).
repository_update(repo, objs, playlist) ==
    LET id  == objs[playlist].id
        new == objs[playlist].parent_id
    IN  IF ~stored(repo, id) THEN repo
        ELSE LET old == objs[stored_object(repo, id)].parent_id
             IN  [playlists |-> set_item(repo.playlists, id, playlist),
                  root_playlists |->
                     IF old # new /\ old = None /\ new # None
                     THEN (IF InSeq(id, repo.root_playlists)
                           THEN list_remove(repo.root_playlists, id)
                           ELSE repo.root_playlists)
                     ELSE IF old # new /\ old # None /\ new = None
                     THEN (IF InSeq(id, repo.root_playlists)
                           THEN repo.root_playlists
                           ELSE Append(repo.root_playlists, id))
                     ELSE repo.root_playlists]

\* The loop of delete over self.playlists.values(): a playlist whose parent
\* was playlist_id loses its parent and is listed as a root; r = [repo, objs].
RECURSIVE orphan_children(_, _, _)
orphan_children(items, playlist_id, r) ==
    IF items = <<>> THEN r
    ELSE LET obj == Head(items).obj
             id  == r.objs[obj].id
         IN  orphan_children(Tail(items), playlist_id,
                IF r.objs[obj].parent_id = playlist_id
                THEN [repo |-> [r.repo EXCEPT !.root_playlists =
                                    IF InSeq(id, @) THEN @ ELSE Append(@, id)],
                      objs |-> [r.objs EXCEPT ![obj].parent_id = None]]
                ELSE r)

\* PlaylistRepository.delete: [repo, objs] afterwards, as they were when the
\* id is not stored (return False).
repository_delete(repo, objs, playlist_id) ==
    IF ~stored(repo, playlist_id) THEN [repo |-> repo, objs |-> objs]
    ELSE LET left == [playlists |-> del_item(repo.playlists, playlist_id),
                      root_playlists |->
                         IF InSeq(playlist_id, repo.root_playlists)
                         THEN list_remove(repo.root_playlists, playlist_id)
                         ELSE repo.root_playlists]
         IN  orphan_children(left.playlists, playlist_id,
                             [repo |-> left, objs |-> objs])

\* repository.add(playlist)
RepositoryAdd ==
    /\ pc = "repository"
    /\ ghost.made < MaxCalls
    /\ \E playlist \in DOMAIN plHeap :
          /\ collection' = repository_add(collection, plHeap, playlist)
          /\ ghost' = [ghost EXCEPT !.call = <<"add", plHeap[playlist].id>>,
                                    !.made = @ + 1]
    /\ pre' = <<Snapshot>>
    /\ UNCHANGED <<doc, source, cueHeap, plHeap, xml, nextId, pc, dest, orch>>

\* repository.update(playlist)
RepositoryUpdate ==
    /\ pc = "repository"
    /\ ghost.made < MaxCalls
    /\ \E playlist \in DOMAIN plHeap :
          /\ collection' = repository_update(collection, plHeap, playlist)
          /\ ghost' = [ghost EXCEPT !.call = <<"update", plHeap[playlist].id>>,
                                    !.made = @ + 1]
    /\ pre' = <<Snapshot>>
    /\ UNCHANGED <<doc, source, cueHeap, plHeap, xml, nextId, pc, dest, orch>>

\* repository.delete(playlist_id)
RepositoryDelete ==
    /\ pc = "repository"
    /\ ghost.made < MaxCalls
    /\ \E playlist_id \in {plHeap[p].id : p \in DOMAIN plHeap} :
          LET r == repository_delete(collection, plHeap, playlist_id)
          IN  /\ collection' = r.repo
              /\ plHeap' = r.objs
              /\ ghost' = [ghost EXCEPT !.call = <<"delete", playlist_id>>,
                                        !.made = @ + 1]
    /\ pre' = <<Snapshot>>
    /\ UNCHANGED <<doc, source, cueHeap, xml, nextId, pc, dest, orch>>

\* The ids of the objects the caller holds: the first and the last object
\* have one id, the others an id each.
object_id(p) == IF p = MaxObjects THEN 1 ELSE p

\* An empty repository and MaxObjects playlists, each without parent or with
\* the id of any of them as parent_id.
InitRepository ==
    /\ doc = NoDoc
    /\ collection = PlaylistRepository
    /\ source = Collection("DJ Collection")
    /\ cueHeap = NoHeap
    /\ \E parents \in [1..MaxObjects -> {None} \cup 1..(MaxObjects - 1)] :
          plHeap = [p \in 1..MaxObjects |-> PlaylistWithId(object_id(p), parents[p])]
    /\ ghost = NoGhost
    /\ xml = <<>>
    /\ nextId = MaxObjects + 1
    /\ pc = "repository"
    /\ pre = <<>>
    /\ dest = "previous"
    /\ orch = NoRun

NextRepository == RepositoryAdd \/ RepositoryUpdate \/ RepositoryDelete

\* Up to MaxCalls calls of add, update and delete on a PlaylistRepository.
SpecRepository == InitRepository /\ [][NextRepository]_vars

\* ------------------------------------------------------------------ claims

\* The import has returned a Collection (and the run may have gone on).
Imported == pc \in {"import", "convert", "export"} /\ doc # NoDoc

\* The ENTRY elements and the top-level NODE elements of the document.
DocEntries == IF doc.COLLECTION = <<>> THEN <<>> ELSE doc.COLLECTION[1]
DocNodes == IF doc.PLAYLISTS = <<>> THEN <<>> ELSE doc.PLAYLISTS[1]

\* Every NODE element under a node, wherever it sits.
ChildNodes(node) ==
    IF node.SUBNODES = <<>> THEN node.NODE ELSE node.SUBNODES[1] \o node.NODE

RECURSIVE CountNodes(_)
CountNodes(nodes) ==
    IF nodes = <<>> THEN 0
    ELSE 1 + CountNodes(ChildNodes(Head(nodes))) + CountNodes(Tail(nodes))

FolderOrPlaylist(node) == node.TYPE \in {"FOLDER", "PLAYLIST"}

RECURSIVE AllFolderOrPlaylist(_)
AllFolderOrPlaylist(nodes) ==
    \A i \in 1..Len(nodes) :
        FolderOrPlaylist(nodes[i]) /\ AllFolderOrPlaylist(ChildNodes(nodes[i]))

\* The node at a path of child indexes.
RECURSIVE NodeAt(_, _)
NodeAt(nodes, path) ==
    IF Len(path) = 1 THEN nodes[path[1]]
    ELSE NodeAt(ChildNodes(nodes[path[1]]), Tail(path))

WellFormedNumber(attr) == attr = Absent \/ attr[1] = "num"

\* The entry has a LOCATION and no attribute that float() or int() rejects.
EntryParses(e) ==
    /\ e.LOCATION # <<>>
    /\ e.INFO # <<>> =>
          WellFormedNumber(e.INFO[1].PLAYTIME) /\ WellFormedNumber(e.INFO[1].RANKING)
    /\ e.TEMPO # <<>> => WellFormedNumber(e.TEMPO[1].BPM)
    /\ \A i \in 1..Len(e.CUE_V2) :
          WellFormedNumber(e.CUE_V2[i].START) /\ WellFormedNumber(e.CUE_V2[i].HOTCUE)
    /\ \A i \in 1..Len(e.LOOP) :
          WellFormedNumber(e.LOOP[i].START) /\ WellFormedNumber(e.LOOP[i].END)

CleanDocument ==
    /\ \A i \in 1..Len(DocEntries) : EntryParses(DocEntries[i])
    /\ AllFolderOrPlaylist(DocNodes)

TrackIds == {collection.tracks[i].id : i \in 1..Len(collection.tracks)}

\* C1: when every track entry of the document has a LOCATION and parses, and
\* every playlist node is a FOLDER or a PLAYLIST, import_library returns a
\* Collection, and the Collection has exactly one track per entry and one
\* playlist per node.
C1_ImportCounts ==
    (pc \in {"import", "import_failed"} /\ can_import(doc) /\ CleanDocument)
    => /\ pc = "import"
       /\ Len(collection.tracks) = Len(DocEntries)
       /\ Cardinality(TrackIds) = Len(DocEntries)
       /\ Len(collection.playlists) = CountNodes(DocNodes)
       /\ Cardinality(Range(collection.playlists)) = CountNodes(DocNodes)

\* C2: after import a Playlist has children exactly when its node is a FOLDER
\* with child nodes, and the children are the playlists of the child nodes.
C2_ChildrenMirrorFolders ==
    Imported =>
        \A p \in Range(collection.playlists) :
            LET node == NodeAt(DocNodes, ghost.nodeOf[p])
                kids == ChildNodes(node)
            IN  /\ (plHeap[p].children # <<>>)
                        <=> (node.TYPE = "FOLDER" /\ kids # <<>>)
                /\ \A i \in 1..Len(plHeap[p].children) :
                      ghost.nodeOf[plHeap[p].children[i]] = Append(ghost.nodeOf[p], i)

Front(q) == SubSeq(q, 1, Len(q) - 1)

\* The paths of the top-level nodes that become playlists, in document order.
RECURSIVE TopLevelPaths(_)
TopLevelPaths(i) ==
    IF i > Len(DocNodes) THEN <<>>
    ELSE (IF FolderOrPlaylist(DocNodes[i]) THEN <<<<i>>>> ELSE <<>>) \o TopLevelPaths(i + 1)

\* C3: after import the parent_id of a Playlist is the id of the Playlist made
\* for the enclosing FOLDER node (None at the top level), and root_playlists
\* lists the playlists of the top-level nodes in document order.
C3_ParentLinks ==
    Imported =>
        /\ \A p \in Range(collection.playlists) :
              LET path == ghost.nodeOf[p]
              IN  IF Len(path) = 1 THEN plHeap[p].parent_id = None
                  ELSE /\ plHeap[p].parent_id \in Range(collection.playlists)
                       /\ ghost.nodeOf[plHeap[p].parent_id] = Front(path)
                       /\ NodeAt(DocNodes, Front(path)).TYPE = "FOLDER"
        /\ [i \in 1..Len(collection.root_playlists) |->
                ghost.nodeOf[collection.root_playlists[i]]] = TopLevelPaths(1)

\* C3 happens: two top-level nodes, the first a folder with a child.
C3_Witness ==
    /\ pc = "import"
    /\ Len(collection.root_playlists) = 2
    /\ Len(collection.playlists) = 3
    /\ plHeap[collection.playlists[2]].parent_id = collection.playlists[1]

\* The piece of a key after its last "/:".
FileNameOf(key) ==
    LET seps == {i \in 1..(Len(key) - 1) : SubSeq(key, i, i + 1) = TraktorSep}
    IN  SubSeq(key, (CHOOSE i \in seps : \A j \in seps : j <= i) + 2, Len(key))

\* A key that reaches the resolution step: not empty, with a "/:" in it.
Resolvable(key) ==
    key # <<>> /\ \E i \in 1..(Len(key) - 1) : SubSeq(key, i, i + 1) = TraktorSep

ExactMatches(key) ==
    {i \in 1..Len(collection.tracks) :
        /\ "traktor_path" \in DOMAIN collection.tracks[i].custom_tags
        /\ collection.tracks[i].custom_tags["traktor_path"] = key}

SuffixMatches(key) ==
    {i \in 1..Len(collection.tracks) :
        endswith(collection.tracks[i].file_path, FileNameOf(key))}

Least(S) == CHOOSE i \in S : \A j \in S : i <= j

\* The track a key must resolve to: <<id>>, or <<>>.
ExpectedTrack(key) ==
    IF ~Resolvable(key) THEN <<>>
    ELSE IF ExactMatches(key) # {} THEN <<collection.tracks[Least(ExactMatches(key))].id>>
    ELSE IF SuffixMatches(key) # {} THEN <<collection.tracks[Least(SuffixMatches(key))].id>>
    ELSE <<>>

\* The track ids a list of playlist entries must give: the expected track of
\* each entry, in order, a track already listed left out.
RECURSIVE ExpectedTrackIds(_, _)
ExpectedTrackIds(entries, acc) ==
    IF entries = <<>> THEN acc
    ELSE LET t == IF Head(entries) = <<>> THEN <<>> ELSE ExpectedTrack(Head(entries)[1])
         IN  ExpectedTrackIds(Tail(entries),
                IF t # <<>> /\ ~InSeq(t[1], acc) THEN acc \o t ELSE acc)

\* C4: a key resolves to a track whose stored Traktor path equals it whenever
\* there is one, and only otherwise to the first track, in insertion order,
\* whose file path ends with the key's filename.
C4_ExactBeforeSuffix ==
    Imported =>
        \A p \in Range(collection.playlists) :
            LET node == NodeAt(DocNodes, ghost.nodeOf[p])
            IN  plHeap[p].track_ids =
                    IF node.TYPE = "PLAYLIST" /\ node.PLAYLIST # <<>>
                    THEN ExpectedTrackIds(node.PLAYLIST[1], <<>>)
                    ELSE <<>>

\* C4 happens: the key is the stored path of the second track, and the first
\* track's file path ends with the same filename.
C4_Witness ==
    /\ pc = "import"
    /\ Len(collection.tracks) = 2
    /\ Len(collection.playlists) = 1
    /\ ExactMatches(KeyA) = {2}
    /\ SuffixMatches(KeyA) = {1, 2}
    /\ NodeAt(DocNodes, <<1>>).PLAYLIST = <<<<  <<KeyA>>  >>>>
    /\ plHeap[collection.playlists[1]].track_ids = <<collection.tracks[2].id>>

\* The options of the export, and the state the operation before it started in.
ExportOptions == xml[1].options
Before == pre[1]

\* The cue points of a track, as they are in a heap.
CuesOf(track, cues) == [i \in 1..Len(track.cue_points) |-> cues[track.cue_points[i]]]

\* C5: exporting a collection as it is with convert_hot_cues_to_memory_cues
\* set writes the document that converting the collection with
\* ConversionService.convert_hot_cues_to_memory_cues and exporting it with the
\* option unset writes: the same POSITION_MARK records (type code, Start, Num)
\* in the same order, in the same TRACKs.
C5_OptionEarlyOrLate ==
    (pc = "export" /\ Before.pc = "built"
        /\ ExportOptions.convert_hot_cues_to_memory_cues)
    => xml[1].document =
         export_library(collection,
                        convert_hot_cues_to_memory_cues(collection, cueHeap), plHeap,
                        [convert_hot_cues_to_memory_cues |-> FALSE])

\* An export with the option set of an unconverted collection with a track
\* of two cue points, one of them a hot cue on a pad.
C5_Witness ==
    /\ pc = "export" /\ Before.pc = "built"
    /\ ExportOptions.convert_hot_cues_to_memory_cues
    /\ \E i \in 1..Len(collection.tracks) :
          /\ Len(collection.tracks[i].cue_points) = 2
          /\ \E k \in 1..2 :
                LET cue == cueHeap[collection.tracks[i].cue_points[k]]
                IN  cue.type = "HOT_CUE" /\ cue.index > 0

\* C6: convert_hot_cues_to_memory_cues makes every HOT_CUE cue point of every
\* track a MEMORY_CUE and keeps the type of every other cue point; every track
\* keeps its cue points in number and order, and every cue point its name,
\* position and index.
C6_OnlyHotCuesChangeType ==
    (pc = "convert")
    => /\ collection = Before.collection
       /\ \A i \in 1..Len(collection.tracks) :
            LET before == CuesOf(Before.collection.tracks[i], Before.cueHeap)
                after  == CuesOf(collection.tracks[i], cueHeap)
            IN  /\ Len(after) = Len(before)
                /\ \A k \in 1..Len(before) :
                      /\ after[k].type = IF before[k].type = "HOT_CUE"
                                         THEN "MEMORY_CUE" ELSE before[k].type
                      /\ after[k].name = before[k].name
                      /\ after[k].position = before[k].position
                      /\ after[k].index = before[k].index

\* A conversion of a track that had a hot cue on a pad and a cue point that
\* is neither a hot cue nor a memory cue.
C6_Witness ==
    /\ pc = "convert"
    /\ \E i \in 1..Len(collection.tracks) :
          LET before == CuesOf(Before.collection.tracks[i], Before.cueHeap)
          IN  /\ Len(before) = 2
              /\ \E k \in 1..2 : before[k].type = "HOT_CUE" /\ before[k].index > 0
              /\ \E k \in 1..2 : before[k].type \notin {"HOT_CUE", "MEMORY_CUE"}

\* C7: convert_hot_cues_to_memory_cues applied to a collection it has been
\* applied to leaves the collection and its cue points as they were.
C7_ConvertIdempotent ==
    (pc = "convert" /\ Before.pc = "convert")
    => /\ collection = Before.collection
       /\ cueHeap = Before.cueHeap

\* A second conversion of a collection with a cue point that was a hot cue
\* and a cue point that was a memory cue from the start.
C7_Witness ==
    /\ pc = "convert" /\ Before.pc = "convert"
    /\ \E i \in DOMAIN cueHeap : cueHeap[i].type = "MEMORY_CUE" /\ cueHeap[i].name = "h"
    /\ \E i \in DOMAIN cueHeap : cueHeap[i].type = "MEMORY_CUE" /\ cueHeap[i].name # "h"

\* The leaf playlist NODEs (Type 1) under a list of exported NODEs.
RECURSIVE ExportedLeaves(_)
ExportedLeaves(nodes) ==
    IF nodes = <<>> THEN {}
    ELSE (IF Head(nodes).Type = 1 THEN {Head(nodes)}
          ELSE ExportedLeaves(Head(nodes).NODE))
         \cup ExportedLeaves(Tail(nodes))

\* C10: in an exported document every leaf playlist NODE has a TRACK
\* reference only for ids that are keys of Collection.tracks, and declares as
\* Entries the number of its TRACK references, also when the playlist's
\* track_ids holds an id that is no key of Collection.tracks.
C10_EntriesCountReferences ==
    (pc = "export")
    => \A n \in ExportedLeaves(xml[1].document.PLAYLISTS.NODE) :
          /\ n.Entries = Len(n.TRACK)
          /\ \A i \in 1..Len(n.TRACK) :
                \E t \in 1..Len(collection.tracks) :
                    n.TRACK[i].Key = hex_id(collection.tracks[t].id)

\* The ids and the file paths of the tracks of a collection.
TrackIdsOf(c) == {c.tracks[i].id : i \in 1..Len(c.tracks)}
FilePaths(c) == {c.tracks[i].file_path : i \in 1..Len(c.tracks)}

\* The tracks of collection c with the file path of track.
SamePath(c, track) == {i \in 1..Len(c.tracks) : c.tracks[i].file_path = track.file_path}

\* The entries of a source playlist that are ids of tracks of source, in order.
RECURSIVE SourceEntries(_)
SourceEntries(track_ids) ==
    IF track_ids = <<>> THEN <<>>
    ELSE (IF Head(track_ids) \in TrackIdsOf(source) THEN <<Head(track_ids)>> ELSE <<>>)
         \o SourceEntries(Tail(track_ids))

\* The playlist merge_collections made in target for the k-th playlist of
\* source.
MergedPlaylist(k) == plHeap[collection.playlists[Len(Before.collection.playlists) + k]]

\* C8: after merge_collections(source, target), for a source track with the
\* file path of a track target had before, target has no more tracks of that
\* file path than before, and wherever a source playlist lists that track the
\* playlist made for it in target lists a track target had before with that
\* file path.
C8_DuplicateReusesTargetTrack ==
    (pc = "merge")
    => \A i \in 1..Len(source.tracks) :
          LET track == source.tracks[i]
              was   == SamePath(Before.collection, track)
          IN  was # {}
              => /\ Cardinality(SamePath(collection, track)) = Cardinality(was)
                 /\ \A k \in 1..Len(source.playlists) :
                      LET entries == SourceEntries(plHeap[source.playlists[k]].track_ids)
                          merged  == MergedPlaylist(k).track_ids
                      IN  /\ Len(merged) = Len(entries)
                          /\ \A e \in 1..Len(entries) :
                                entries[e] = track.id
                                => merged[e] \in {Before.collection.tracks[j].id : j \in was}

\* A merge of a source with a track of a file path target had and a track
\* of a file path target had not, both in a playlist of source after an id
\* of no track.
C8_Witness ==
    /\ pc = "merge"
    /\ \E i, j \in 1..Len(source.tracks) :
          /\ SamePath(Before.collection, source.tracks[i]) # {}
          /\ SamePath(Before.collection, source.tracks[j]) = {}
          /\ \E k \in 1..Len(source.playlists) :
                LET ids == plHeap[source.playlists[k]].track_ids
                IN  /\ Len(ids) = 3
                    /\ ids[1] \notin TrackIdsOf(source)
                    /\ {source.tracks[i].id, source.tracks[j].id} \subseteq Range(ids)

\* C9: after merge_collections(source, target), target has the tracks it had,
\* as they were, and after them one new track for every file path of a source
\* track that no track of target had: of that file path, with the title and
\* artist of a source track of that file path and an id that neither target
\* nor source had; target has grown by the number of those file paths.
C9_OneNewTrackPerNewPath ==
    (pc = "merge")
    => LET old   == Before.collection.tracks
           new   == collection.tracks
           paths == FilePaths(source) \ FilePaths(Before.collection)
           added == (Len(old) + 1)..Len(new)
       IN  /\ Len(new) = Len(old) + Cardinality(paths)
           /\ \A i \in 1..Len(old) : new[i] = old[i]
           /\ cueHeap = Before.cueHeap
           /\ \A p \in paths : Cardinality({j \in added : new[j].file_path = p}) = 1
           /\ \A j \in added :
                /\ new[j].file_path \in paths
                /\ new[j].id \notin TrackIdsOf(Before.collection) \cup TrackIdsOf(source)
                /\ \A h \in added : new[h].id = new[j].id => h = j
                /\ \E i \in 1..Len(source.tracks) :
                      /\ source.tracks[i].file_path = new[j].file_path
                      /\ source.tracks[i].title = new[j].title
                      /\ source.tracks[i].artist = new[j].artist

\* A merge into a target with a track, of a source with two tracks of
\* different titles and one file path that target had not.
C9_Witness ==
    /\ pc = "merge"
    /\ Before.collection.tracks # <<>>
    /\ \E i, j \in 1..Len(source.tracks) :
          /\ source.tracks[i].file_path = source.tracks[j].file_path
          /\ source.tracks[i].title # source.tracks[j].title
          /\ source.tracks[i].file_path \notin FilePaths(Before.collection)
    /\ Len(collection.tracks) = Len(Before.collection.tracks) + 1

\* The NODE node is what the claim says is written for the playlist id: a
\* folder of its children's NODEs, or a leaf that declares its track_ids.
RECURSIVE WrittenFor(_, _)
WrittenFor(node, id) ==
    LET playlist == plHeap[id]
    IN  IF playlist.children # <<>>
        THEN /\ node.Type = 0
             /\ node.Count = Len(playlist.children)
             /\ Len(node.NODE) = Len(playlist.children)
             /\ \A i \in 1..Len(playlist.children) :
                    WrittenFor(node.NODE[i], playlist.children[i])
        ELSE /\ node.Type = 1
             /\ node.Entries = Len(playlist.track_ids)

\* C11: in an exported document the NODEs under ROOT are those of the root
\* playlists in order, and the NODE of every playlist reached from them is,
\* for a playlist with children, a Type 0 NODE whose Count is the length of
\* children and which holds the children's NODEs in list order, and for a
\* playlist without children a Type 1 NODE whose Entries is the length of
\* track_ids.
C11_FolderAndLeafNodes ==
    (pc = "export")
    => LET nodes == xml[1].document.PLAYLISTS.NODE
       IN  /\ Len(nodes) = Len(collection.root_playlists)
           /\ \A i \in 1..Len(nodes) : WrittenFor(nodes[i], collection.root_playlists[i])

\* An export of a root playlist that lists a track and has a child that
\* lists an id.
C11_Witness ==
    /\ pc = "export"
    /\ \E i \in 1..Len(collection.root_playlists) :
          LET folder == plHeap[collection.root_playlists[i]]
          IN  /\ folder.children # <<>> /\ folder.track_ids # <<>>
              /\ plHeap[folder.children[1]].children = <<>>
              /\ plHeap[folder.children[1]].track_ids # <<>>

\* The POSITION_MARKs written for the i-th track of the collection.
PositionMarks(i) == xml[1].document.COLLECTION.TRACK[i].POSITION_MARK

\* C12: in an exported document every track has one POSITION_MARK per cue
\* point and then one per loop, each with Num >= 0: Num is 0 for a negative
\* index and the index itself otherwise.
C12_NumNeverNegative ==
    (pc = "export")
    => \A i \in 1..Len(collection.tracks) :
          LET track == collection.tracks[i]
              cues  == CuesOf(track, cueHeap)
              index == [k \in 1..(Len(cues) + Len(track.loops)) |->
                           IF k <= Len(cues) THEN cues[k].index
                           ELSE track.loops[k - Len(cues)].index]
          IN  /\ Len(PositionMarks(i)) = Len(index)
              /\ \A k \in 1..Len(index) :
                    /\ PositionMarks(i)[k].Num >= 0
                    /\ PositionMarks(i)[k].Num = IF index[k] < 0 THEN 0 ELSE index[k]

\* An export of a track with a cue point of index -3, a loop of index -1 and
\* a loop on pad 2.
C12_Witness ==
    /\ pc = "export"
    /\ \E i \in 1..Len(collection.tracks) :
          LET track == collection.tracks[i]
          IN  /\ \E k \in 1..Len(track.cue_points) : cueHeap[track.cue_points[k]].index = -3
              /\ \E k \in 1..Len(track.loops) : track.loops[k].index = -1
              /\ \E k \in 1..Len(track.loops) : track.loops[k].index = 2

\* C13: in the export of an imported document, the POSITION_MARK of every
\* cue whose START is a whole number m of milliseconds has Start = m.
C13_StartRoundTrips ==
    (pc = "export" /\ doc # NoDoc)
    => \A i \in 1..Len(collection.tracks) :
          LET entry == DocEntries[ghost.entryOf[collection.tracks[i].id]]
          IN  \A k \in 1..Len(entry.CUE_V2) :
                entry.CUE_V2[k].START[1] = "num"
                => PositionMarks(i)[k].Start = entry.CUE_V2[k].START[2]

\* C14: an import of an NML document returns a Collection, whatever exception
\* the interpretation of one of its track entries or playlist nodes raises,
\* and the Collection has a track for every entry that parses.
C14_OnlyTheEntryIsSkipped ==
    (pc \in {"import", "import_failed"} /\ can_import(doc))
    => /\ pc = "import"
       /\ \A i \in 1..Len(DocEntries) :
             EntryParses(DocEntries[i])
             => \E t \in 1..Len(collection.tracks) :
                   ghost.entryOf[collection.tracks[t].id] = i

\* The key of a playlist entry matches a track: by its stored Traktor path
\* or by its filename.
Matches(entry) ==
    /\ entry # <<>>
    /\ Resolvable(entry[1])
    /\ ExactMatches(entry[1]) \cup SuffixMatches(entry[1]) # {}

\* The PLAYLIST nodes of the document that have a PLAYLIST element, by path.
RECURSIVE PlaylistPaths(_, _)
PlaylistPaths(nodes, path) ==
    UNION {LET node == nodes[i]
           IN  (IF node.TYPE = "PLAYLIST" /\ node.PLAYLIST # <<>>
                THEN {Append(path, i)} ELSE {})
               \cup (IF node.TYPE = "FOLDER"
                     THEN PlaylistPaths(folder_children(node), Append(path, i))
                     ELSE {}) : i \in 1..Len(nodes)}

\* C15: an import that returns a Collection has made a playlist for every
\* PLAYLIST node, and the playlist's track_ids are those its entries give
\* without the entries whose key matches no track: such an entry adds
\* nothing, the others keep their order.  No import fails over the entries of
\* a playlist: an NML document whose import, made with room for its tracks,
\* returns no Collection has FOLDER or PLAYLIST nodes nested three deep.
C15_UnresolvedEntriesDropped ==
    /\ (pc = "import")
       => \A path \in PlaylistPaths(DocNodes, <<>>) :
             \E p \in Range(collection.playlists) :
                /\ ghost.nodeOf[p] = path
                /\ plHeap[p].track_ids =
                     ExpectedTrackIds(SelectSeq(NodeAt(DocNodes, path).PLAYLIST[1], Matches),
                                      <<>>)
    /\ (pc = "import_failed" /\ can_import(doc)) => call_depth(DocNodes) > 2

\* An import of a playlist with the key of the second track, then a key that
\* matches no track, then the key of the first track.
C15_Witness ==
    /\ pc = "import"
    /\ Len(collection.tracks) = 2
    /\ \E path \in PlaylistPaths(DocNodes, <<>>) :
          LET entries == NodeAt(DocNodes, path).PLAYLIST[1]
          IN  /\ Len(entries) = 3
              /\ Matches(entries[1]) /\ ~Matches(entries[2]) /\ Matches(entries[3])
              /\ \E p \in Range(collection.playlists) :
                    /\ ghost.nodeOf[p] = path
                    /\ plHeap[p].track_ids =
                         <<collection.tracks[2].id, collection.tracks[1].id>>

\* The percentages delivered to the progress callback, in order.
Percentages == [i \in 1..Len(orch.progress) |-> orch.progress[i].percentage]

\* C16: when the input file is unreadable, is malformed XML or has a root tag
\* other than NML, the import returns no Collection, and convert returns
\* False having called neither the conversion nor the export: nothing is
\* exported and the destination is as it was.
C16_StructuralFailureAborts ==
    (/\ pc = "convert_returned"
     /\ get_importer(orch.input_format)
     /\ doc.file \in {"unreadable", "malformed"} \/ doc.root # "NML")
    => /\ collection = Collection("DJ Collection")
       /\ orch.result = <<FALSE>>
       /\ ~orch.raised
       /\ orch.calls = <<"import">>
       /\ xml = <<>>
       /\ dest = "previous"

\* A run, with the conversion asked for, on a file that parses and has the
\* root tag DJ_PLAYLISTS.
C16_Witness ==
    /\ pc = "convert_returned"
    /\ get_importer(orch.input_format) /\ get_exporter(orch.output_format)
    /\ orch.options.convert_hot_cues_to_memory_cues
    /\ doc.file = "ok" /\ doc.root = "DJ_PLAYLISTS"
    /\ orch.result = <<FALSE>>

\* C17: a call of convert that names an input format without importer, or
\* reaches the export stage with an output format without exporter, ends with
\* the error raised to the caller and no result returned.
C17_UnknownFormatRaises ==
    (/\ pc = "convert_returned"
     /\ \/ ~get_importer(orch.input_format)
        \/ ~get_exporter(orch.output_format) /\ InSeq("export", orch.calls))
    => orch.raised /\ orch.result = <<>>

\* C18: the destination of an export holds its previous content or a complete
\* new document, whatever error the export met.
C18_NoPartialDocument == dest \in {"previous", "complete"}

\* C19, as stated: when convert has returned the percentages delivered are a
\* prefix of 10, 40, 70 followed by one 100, and they are 10, 40, 70, 100
\* exactly when convert returned True.
C19_FullSequenceOnlyOnSuccess ==
    (pc = "convert_returned")
    => /\ \E k \in 0..3 : Percentages = SubSeq(<<10, 40, 70>>, 1, k) \o <<100>>
       /\ Percentages = <<10, 40, 70, 100>> <=> orch.result = <<TRUE>>

\* The notification at 100 has been delivered.
Notified100 == pc \in {"convert_failed", "convert_completed", "convert_returned"}

\* C19, amended: the percentages delivered are at any time a prefix of 10,
\* 40, 70, followed once the last notification is delivered by one 100; when
\* convert returned True they are 10, 40, 70, 100; and they are 10, 40, 70,
\* 100 also when convert returned False because the export stage failed, the
\* notification at 100 then carrying a failure message; a failed import
\* gives 10, 100 and a failed conversion 10, 40, 100.
C19_ProgressMilestones ==
    /\ \E k \in 0..3 :
          Percentages = SubSeq(<<10, 40, 70>>, 1, k)
                        \o (IF Notified100 THEN <<100>> ELSE <<>>)
    /\ (pc = "convert_returned")
       => /\ orch.result = <<TRUE>> => Percentages = <<10, 40, 70, 100>>
          /\ (orch.result = <<FALSE>> /\ InSeq("export", orch.calls))
             => /\ Percentages = <<10, 40, 70, 100>>
                /\ orch.progress[4].failure
          /\ (orch.result = <<FALSE>> /\ orch.calls = <<"import">>)
             => Percentages = <<10, 100>>
          /\ (orch.result = <<FALSE>> /\ orch.calls = <<"import", "process">>)
             => Percentages = <<10, 40, 100>>

\* A run whose export stage failed after the file was opened: 10, 40, 70 and
\* 100 were delivered and convert returned False.
C19_Witness ==
    /\ pc = "convert_returned"
    /\ orch.result = <<FALSE>>
    /\ dest = "partial"
    /\ Percentages = <<10, 40, 70, 100>>

\* C20: when convert has returned after a stage failed, it returned False
\* and raised nothing, one notification at 100 was delivered, the last one,
\* with a failure message, and no stage was called twice; after a failed
\* import (10 then 100) no other stage was called, and after a failed export
\* (10, 40, 70 then 100) the export was the last stage called.
C20_FailureIsOneResult ==
    (pc = "convert_returned" /\ orch.result # <<TRUE>>)
    => /\ orch.result = <<FALSE>>
       /\ ~orch.raised
       /\ Cardinality({i \in 1..Len(orch.progress) : orch.progress[i].percentage = 100}) = 1
       /\ orch.progress[Len(orch.progress)] = [percentage |-> 100, failure |-> TRUE]
       /\ NoDup(orch.calls)
       /\ Percentages = <<10, 100>>
          => /\ orch.calls = <<"import">>
             /\ xml = <<>>
             /\ dest = "previous"
       /\ Percentages = <<10, 40, 70, 100>>
          => /\ orch.calls[Len(orch.calls)] = "export"
             /\ xml = <<>>

\* A run whose export stage returned False, the destination untouched, after
\* an import and a conversion.
C20_Witness ==
    /\ pc = "convert_returned"
    /\ orch.result = <<FALSE>>
    /\ Percentages = <<10, 40, 70, 100>>
    /\ get_exporter(orch.output_format)
    /\ orch.calls = <<"import", "process", "export">>
    /\ dest = "previous"

\* C21: the importer's cue type mapping is total. Every CUE_V2 element of an
\* entry that is read gives a cue point of a neutral type, whatever its TYPE
\* string is (missing and unrecognised included); a TYPE the table does not
\* know gives HOT_CUE; and every imported cue that is not a HOT_CUE has
\* index -1.
C21_CueTypeMappingTotal ==
    (pc = "import" /\ doc # NoDoc)
    => /\ \A e \in 1..Len(DocEntries) :
             EntryParses(DocEntries[e])
             => \E t \in 1..Len(collection.tracks) :
                   ghost.entryOf[collection.tracks[t].id] = e
       /\ \A t \in 1..Len(collection.tracks) :
             LET track == collection.tracks[t]
                 entry == DocEntries[ghost.entryOf[track.id]]
             IN  /\ Len(track.cue_points) = Len(entry.CUE_V2)
                 /\ \A k \in 1..Len(entry.CUE_V2) :
                       LET cue == cueHeap[track.cue_points[k]]
                       IN  /\ cue.type \in CueTypes
                           /\ (entry.CUE_V2[k].TYPE # <<>>
                               /\ entry.CUE_V2[k].TYPE[1] \notin KnownCueTypeStrs)
                              => cue.type = "HOT_CUE"
                           /\ cue.type # "HOT_CUE" => cue.index = -1

\* An imported library with a cue of an unrecognised TYPE that carries a
\* HOTCUE number.
C21_Witness ==
    /\ pc = "import" /\ doc # NoDoc
    /\ \E t \in 1..Len(collection.tracks) :
          LET track == collection.tracks[t]
              entry == DocEntries[ghost.entryOf[track.id]]
          IN  \E k \in 1..Len(entry.CUE_V2) :
                /\ entry.CUE_V2[k].TYPE = <<"4">>
                /\ entry.CUE_V2[k].HOTCUE = Num(2)
                /\ cueHeap[track.cue_points[k]].type = "HOT_CUE"
                /\ cueHeap[track.cue_points[k]].index = 2

\* C22: after any sequence of add_track and remove_track calls no playlist
\* lists an id twice; add_track of an id the playlist lists and remove_track
\* of an id it does not list leave track_ids as it was, content and order.
C22_TrackIdsWithoutDuplicates ==
    pc = "playlists"
    => /\ \A p \in DOMAIN plHeap : NoDup(plHeap[p].track_ids)
       /\ ghost.call # <<>>
          => LET op     == ghost.call[1]
                 p      == ghost.call[2]
                 id     == ghost.call[3]
                 before == Before.plHeap[p].track_ids
             IN  /\ (op = "add_track" /\ InSeq(id, before))
                    => plHeap[p].track_ids = before
                 /\ (op = "remove_track" /\ ~InSeq(id, before))
                    => plHeap[p].track_ids = before

\* add_track of an id that a playlist of three ids lists first has just
\* returned.
C22_Witness ==
    /\ pc = "playlists"
    /\ ghost.call # <<>>
    /\ ghost.call[1] = "add_track"
    /\ Len(Before.plHeap[ghost.call[2]].track_ids) = 3
    /\ Before.plHeap[ghost.call[2]].track_ids[1] = ghost.call[3]
    /\ plHeap[ghost.call[2]].track_ids = Before.plHeap[ghost.call[2]].track_ids

\* C23: after any sequence of add_playlist, add_child and remove_child calls
\* every id in root_playlists is a key of playlists, is listed once, and names
\* a playlist without parent.
C23_RootsAreParentless ==
    pc = "tree"
    => \A i \in 1..Len(collection.root_playlists) :
          LET id == collection.root_playlists[i]
          IN  /\ InSeq(id, collection.playlists)
              /\ \A j \in 1..Len(collection.root_playlists) :
                    collection.root_playlists[j] = id => j = i
              /\ plHeap[id].parent_id = None

\* The places of playlist q in children lists: <<p, i>> when q is the i-th
\* child of p.
PlacesOf(q) ==
    {<<p, i>> \in (DOMAIN plHeap) \X (1..MaxCalls) :
        i <= Len(plHeap[p].children) /\ plHeap[p].children[i] = q}

\* The playlists reached from p through children lists in at most n steps.
RECURSIVE DescendantsOf(_, _)
DescendantsOf(p, n) ==
    IF n = 0 THEN {}
    ELSE LET kids == Range(plHeap[p].children)
         IN  kids \cup UNION {DescendantsOf(k, n - 1) : k \in kids}

\* C24: after any sequence of add_child and remove_child calls the children
\* relation is a tree: a playlist is in at most one children list and there
\* once, its parent_id names the playlist that lists it, and no playlist is
\* its own ancestor.
C24_ChildrenFormTree ==
    pc = "tree"
    => \A q \in DOMAIN plHeap :
          /\ Cardinality(PlacesOf(q)) <= 1
          /\ \A place \in PlacesOf(q) : plHeap[q].parent_id = place[1]
          /\ q \notin DescendantsOf(q, MaxObjects)

\* The Playlist made for the node at a path.
PlaylistAt(path) ==
    CHOOSE p \in Range(collection.playlists) : ghost.nodeOf[p] = path

\* The indexes of the FOLDER and PLAYLIST nodes of a list, in order.
RECURSIVE KeptNodes(_, _)
KeptNodes(nodes, i) ==
    IF i > Len(nodes) THEN <<>>
    ELSE (IF FolderOrPlaylist(nodes[i]) THEN <<i>> ELSE <<>>) \o KeptNodes(nodes, i + 1)

\* The exported NODEs written are those of the source nodes under path, one
\* for one and in order: Type 0 with the NODEs of its child nodes for a
\* FOLDER, Type 1 with the references of its resolved tracks for a PLAYLIST.
RECURSIVE MirrorsNodes(_, _, _)
MirrorsNodes(written, nodes, path) ==
    LET kept == KeptNodes(nodes, 1)
    IN  /\ Len(written) = Len(kept)
        /\ \A k \in 1..Len(kept) :
              LET node == nodes[kept[k]]
                  here == Append(path, kept[k])
              IN  /\ written[k].Name = node.NAME
                  /\ IF node.TYPE = "FOLDER"
                     THEN /\ written[k].Type = 0
                          /\ MirrorsNodes(written[k].NODE, ChildNodes(node), here)
                     ELSE /\ written[k].Type = 1
                          /\ written[k].TRACK =
                                playlist_track_refs(plHeap[PlaylistAt(here)].track_ids,
                                                    collection)

\* C25: in the export of an imported document every FOLDER and PLAYLIST node
\* of the source, at any depth, is written as one NODE under the NODE of its
\* parent folder (under ROOT at the top level): Type 0 for a FOLDER, Type 1
\* with the resolved track references for a PLAYLIST.
C25_PlaylistTreeSurvives ==
    (pc = "export" /\ doc # NoDoc)
    => MirrorsNodes(xml[1].document.PLAYLISTS.NODE, DocNodes, <<>>)

\* C26: in every exported document each TRACK reference of a playlist NODE
\* has the Key that is the TrackID of exactly one TRACK record of the
\* COLLECTION element, and the COLLECTION's Entries is the number of its
\* TRACK records.
C26_NoDanglingReferenceWritten ==
    (pc = "export")
    => LET records == xml[1].document.COLLECTION.TRACK
       IN  /\ xml[1].document.COLLECTION.Entries = Len(records)
           /\ \A n \in ExportedLeaves(xml[1].document.PLAYLISTS.NODE) :
                 \A i \in 1..Len(n.TRACK) :
                    Cardinality({t \in 1..Len(records) :
                                    records[t].TrackID = n.TRACK[i].Key}) = 1

\* An export of a playlist that lists a track of the collection and an id of
\* no track: one reference is written, to one of the two TRACK records.
C26_Witness ==
    /\ pc = "export"
    /\ Len(xml[1].document.COLLECTION.TRACK) = 2
    /\ \E p \in Range(collection.playlists) :
          /\ plHeap[p].children = <<>>
          /\ Len(plHeap[p].track_ids) = 2
          /\ \E i \in 1..2 : get_track(collection, plHeap[p].track_ids[i]) = <<>>
          /\ \E i \in 1..2 : get_track(collection, plHeap[p].track_ids[i]) # <<>>
    /\ \E n \in ExportedLeaves(xml[1].document.PLAYLISTS.NODE) :
          n.Entries = 2 /\ Len(n.TRACK) = 1

\* C27: after merge_collections(source, target) no playlist made in target
\* lists a track id twice, also when two tracks of a source playlist have one
\* file path or match the same track of target.
C27_MergedPlaylistWithoutDuplicates ==
    (pc = "merge")
    => \A k \in 1..Len(source.playlists) : NoDup(MergedPlaylist(k).track_ids)

\* C28: the tracks merge_collections adds to target are independent copies:
\* convert_hot_cues_to_memory_cues(target) after the merge leaves the type of
\* every cue point of the source collection as it was.
C28_MergedTracksAreCopies ==
    (pc = "convert" /\ Before.pc = "merge")
    => \A i \in 1..Len(source.tracks) :
          \A k \in 1..Len(source.tracks[i].cue_points) :
             cueHeap[source.tracks[i].cue_points[k]].type
                = Before.cueHeap[source.tracks[i].cue_points[k]].type

\* The track of collection c with that id.
TrackOf(c, id) == c.tracks[CHOOSE i \in 1..Len(c.tracks) : c.tracks[i].id = id]

\* C29: merge_collections(source, target) adds to target one new playlist per
\* source playlist, in order: with a fresh id, the source name, no parent and
\* no children, and as track_ids the source list (its ids of source tracks)
\* mapped in order to the target tracks of the same file path; each is
\* appended to target.root_playlists, the playlists target had are as they
\* were, and source is unchanged.
C29_MergedPlaylistsAreRoots ==
    (pc = "merge")
    => LET old   == Before.collection
           n     == Len(old.playlists)
           added == [k \in 1..Len(source.playlists) |-> collection.playlists[n + k]]
       IN  /\ Len(collection.playlists) = n + Len(source.playlists)
           /\ SubSeq(collection.playlists, 1, n) = old.playlists
           /\ collection.root_playlists = old.root_playlists \o added
           /\ \A p \in DOMAIN Before.plHeap : plHeap[p] = Before.plHeap[p]
           /\ source = Before.source
           /\ \A k \in 1..Len(source.playlists) :
                 LET from    == plHeap[source.playlists[k]]
                     made    == plHeap[added[k]]
                     entries == SourceEntries(from.track_ids)
                 IN  /\ added[k] \notin DOMAIN Before.plHeap
                     /\ added[k] \notin TrackIdsOf(collection) \cup TrackIdsOf(source)
                     /\ \A j \in 1..Len(source.playlists) : added[j] = added[k] => j = k
                     /\ made.name = from.name
                     /\ made.parent_id = None
                     /\ made.children = <<>>
                     /\ Len(made.track_ids) = Len(entries)
                     /\ \A e \in 1..Len(entries) :
                           /\ made.track_ids[e] = ghost.id_mapping[entries[e]]
                           /\ made.track_ids[e] \in TrackIdsOf(collection)
                           /\ TrackOf(collection, made.track_ids[e]).file_path
                                 = TrackOf(source, entries[e]).file_path

\* A merge of a source whose second playlist is the child of the first and
\* lists a track: both are roots of target afterwards.
C29_Witness ==
    /\ pc = "merge"
    /\ Len(source.playlists) = 2
    /\ plHeap[source.playlists[1]].children = <<source.playlists[2]>>
    /\ plHeap[source.playlists[2]].parent_id = source.playlists[1]
    /\ plHeap[source.playlists[2]].track_ids # <<>>
    /\ Len(collection.root_playlists) = Len(Before.collection.root_playlists) + 2
    /\ MergedPlaylist(2).track_ids # <<>>

\* The ids stored in the repository whose playlist has no parent.
StoredRoots ==
    {collection.playlists[i].key : i \in
        {j \in 1..Len(collection.playlists) :
            plHeap[collection.playlists[j].obj].parent_id = None}}

\* C30: after any sequence of add, update and delete calls root_playlists
\* holds the ids of the stored playlists without parent, each once, and no
\* other id; after delete(id) of a stored id, id is neither stored nor a
\* root, and every stored playlist whose parent was id is a root.
C30_RootsAreStoredParentless ==
    pc = "repository"
    => /\ Range(collection.root_playlists) = StoredRoots
       /\ NoDup(collection.root_playlists)
       /\ (ghost.call # <<>> /\ ghost.call[1] = "delete"
            /\ stored(Before.collection, ghost.call[2]))
          => /\ ~stored(collection, ghost.call[2])
             /\ ~InSeq(ghost.call[2], collection.root_playlists)
             /\ \A i \in 1..Len(collection.playlists) :
                   Before.plHeap[collection.playlists[i].obj].parent_id = ghost.call[2]
                   => /\ plHeap[collection.playlists[i].obj].parent_id = None
                      /\ InSeq(collection.playlists[i].key, collection.root_playlists)

====
